---- MODULE Spec2Model ----
(***************************************************************************)
(* A model of the KLV codec of mpegts_learn (crate klv): the BER length    *)
(* octets, the KLVGlobal view and its writer, the short-form record        *)
(* readers, the UAS Datalink data set and the serde format, and of the     *)
(* PES consumer of mpegts_reader that feeds the codec.                     *)
(*                                                                         *)
(* SpecGlobal  : LengthOctet, write_KLVGloval and the KLVGlobal view.       *)
(* SpecRecords : KLVRawReader / KLVReader, KLV::parse, UASDataset::value.   *)
(* SpecValue   : Value::to_bytes, Value::len and the Value::as_* decoders.  *)
(* SpecFrame   : uasdms encode_len / encode, read back through KLVGlobal    *)
(*               and KLVReader.                                             *)
(* SpecSerde   : the serde Serializer (to_bytes) and Deserializer           *)
(*               (from_bytes) over a struct with renamed fields.            *)
(* SpecIteration : a loop of next() calls on KLVRawReader / KLVReader.     *)
(* SpecPes     : PtsDumpElementaryStreamConsumer (begin_packet,            *)
(*               continue_packet, end_packet).                             *)
(***************************************************************************)
EXTENDS Integers, Sequences, FiniteSets, TLC

VARIABLES
    gbuf,      \* the bytes a KLVGlobal views / a writer has stored (KLVGlobal.0)
    src,       \* how gbuf was produced, with the inputs of that operation
    pc,        \* position of the caller
    op,        \* the last operation called
    ret,       \* what the last operation returned
    buf,       \* KLVReader.buf / KLVRawReader.buf
    origin,    \* the records buf was concatenated from (when it was)
    reader,    \* which iterator walks buf
    current,   \* KLVReader.current / KLVRawReader.current
    yielded,   \* the views next() has returned so far, in order
    serializer,   \* se::Serializer: universal_key, output, keys
    deserializer, \* de::Deserializer and the KLVVisitor over it
    consumer      \* PtsDumpElementaryStreamConsumer: len, buf

vars ==
    <<gbuf, src, pc, op, ret, buf, origin, reader, current, yielded, serializer, deserializer,
      consumer>>

(***************************************************************************)
(* Results of calls                                                        *)
(***************************************************************************)
Ok(v) == [tag |-> "Ok", val |-> v]
Err(e) == [tag |-> "Err", val |-> e]
SomeV(v) == [tag |-> "Some", val |-> v]
NoneV == [tag |-> "None", val |-> <<>>]
Panic == [tag |-> "Panic", val |-> <<>>]
NoRet == [tag |-> "NoRet", val |-> <<>>]

Byte == 0..255

Max(a, b) == IF a >= b THEN a ELSE b

(***************************************************************************)
(* usize values.  Content lengths reach 2^32-1, so a usize is kept as two  *)
(* 16-bit limbs <<hi, lo>> (value hi * 65536 + lo), always normalised.     *)
(***************************************************************************)
Limb == 256 * 256

WOf(n) == <<n \div Limb, n % Limb>>
WAdd(a, b) == <<a[1] + b[1] + ((a[2] + b[2]) \div Limb), (a[2] + b[2]) % Limb>>
WLt(a, b) == a[1] < b[1] \/ (a[1] = b[1] /\ a[2] < b[2])
WLe(a, b) == a = b \/ WLt(a, b)
\* a - b for a >= b
WSub(a, b) ==
    IF a[2] >= b[2] THEN <<a[1] - b[1], a[2] - b[2]>>
    ELSE <<a[1] - b[1] - 1, a[2] + Limb - b[2]>>
WMin(a, b) == IF WLe(a, b) THEN a ELSE b
\* the value as a small integer, for values known to be below one limb pair
WSmall(a) == a[1] * Limb + a[2]

(***************************************************************************)
(* Byte buffers.  A buffer is head \o <<fill, ..., fill>> with `tail`      *)
(* copies of fill, so that a content of 2^32-1 bytes (vec![0xff; size])    *)
(* is a value the model can hold.  Indices are zero-based as in the code.  *)
(***************************************************************************)
Buf(h, f, t) == [head |-> h, fill |-> f, tail |-> t]
Bytes(h) == Buf(h, 0, WOf(0))
EmptyBuf == Bytes(<<>>)
Filled(f, n) == Buf(<<>>, f, n)

BLen(b) == WAdd(WOf(Len(b.head)), b.tail)
BAt(b, i) == IF i < Len(b.head) THEN b.head[i + 1] ELSE b.fill
\* i is a valid index of b
BHas(b, i) == WLt(WOf(i), BLen(b))

\* &b[s..e] for a small start s and s <= e <= len
BSlice(b, s, e) ==
    LET hl == Len(b.head) IN
    IF WLe(e, WOf(hl)) THEN Bytes(SubSeq(b.head, s + 1, WSmall(e)))
    ELSE IF s >= hl THEN Buf(<<>>, b.fill, WSub(e, WOf(s)))
    ELSE Buf(SubSeq(b.head, s + 1, hl), b.fill, WSub(e, WOf(hl)))

\* the first n bytes of b, n <= len
BTake(b, n) == BSlice(b, 0, n)

\* a \o b; a run at the end of a is kept as a run when b continues it
BCat(a, b) ==
    IF a.tail = WOf(0) THEN Buf(a.head \o b.head, b.fill, b.tail)
    ELSE IF b.head = <<>> /\ (b.tail = WOf(0) \/ b.fill = a.fill)
        THEN Buf(a.head, a.fill, WAdd(a.tail, b.tail))
    ELSE Buf(a.head \o [i \in 1..WSmall(a.tail) |-> a.fill] \o b.head, b.fill, b.tail)

\* the same bytes, whatever the split between head and run
BEq(a, b) ==
    LET m == Max(Len(a.head), Len(b.head)) IN
    /\ BLen(a) = BLen(b)
    /\ \A i \in 0..(m - 1) : BHas(a, i) => BAt(a, i) = BAt(b, i)
    /\ WLt(WOf(m), BLen(a)) => a.fill = b.fill

(***************************************************************************)
(* std::io::Write as the codec uses it: a Vec<u8> (or Cursor<Vec<u8>>)     *)
(* takes every byte, a &mut [u8] takes what fits in the room left.         *)
(***************************************************************************)
VecWriter == [kind |-> "vec", data |-> EmptyBuf, room |-> WOf(0)]
SliceWriter(room) == [kind |-> "slice", data |-> EmptyBuf, room |-> room]

\* Write::write: the writer afterwards and the number of bytes taken
Write_write(w, b) ==
    LET n == IF w.kind = "vec" THEN BLen(b) ELSE WMin(BLen(b), w.room) IN
    [w |-> [w EXCEPT !.data = BCat(w.data, BTake(b, n)),
                     !.room = IF w.kind = "vec" THEN w.room ELSE WSub(w.room, n)],
     ret |-> Ok(n)]

\* Write::write_all: what fits is stored, and a short write is WriteZero
Write_write_all(w, b) ==
    LET r == Write_write(w, b) IN
    IF r.ret.val = BLen(b) THEN [w |-> r.w, ret |-> Ok(<<>>)]
    ELSE [w |-> r.w, ret |-> Err("WriteZero")]

(***************************************************************************)
(* Big-endian readers and writers (byteorder::BigEndian)                   *)
(***************************************************************************)
\* BigEndian::write_u16(&mut r, size as u16)
BE_write_u16(size) == <<size[2] \div 256, size[2] % 256>>
\* BigEndian::write_u32(&mut r, size as u32)
BE_write_u32(size) ==
    <<(size[1] % Limb) \div 256, size[1] % 256, size[2] \div 256, size[2] % 256>>
\* BigEndian::read_u16(&b[i..i + 2]) as usize
BE_read_u16(b, i) == WOf(BAt(b, i) * 256 + BAt(b, i + 1))
\* mutant: the four octets read least significant first
BE_read_u32_LittleEndian(b, i) ==
    <<BAt(b, i + 3) * 256 + BAt(b, i + 2), BAt(b, i + 1) * 256 + BAt(b, i)>>
\* BigEndian::read_u32(&b[i..i + 4]) as usize
BE_read_u32(b, i) ==
    <<BAt(b, i) * 256 + BAt(b, i + 1), BAt(b, i + 2) * 256 + BAt(b, i + 3)>>

(***************************************************************************)
(* LengthOctet                                                             *)
(***************************************************************************)
Short(x) == [kind |-> "Short", x |-> x]
Long(x) == [kind |-> "Long", x |-> x]
Indefinite == [kind |-> "Indefinite", x |-> 0]
Reserved == [kind |-> "Reserved", x |-> 0]

FIRST_BIT == 128
BIT_MASK == 127

\* b & FIRST_BIT and b & BIT_MASK on a u8
AndFirstBit(b) == ((b \div FIRST_BIT) % 2) * FIRST_BIT
AndBitMask(b) == b % (BIT_MASK + 1)

\* mutant: 0xFF is not told apart from the long forms
LengthOctet_from_u8_NoReserved(b) ==
    IF AndFirstBit(b) # FIRST_BIT THEN Short(AndBitMask(b))
    ELSE IF b = 128 THEN Indefinite
    ELSE Long(AndBitMask(b))

LengthOctet_from_u8(b) ==
    IF AndFirstBit(b) # FIRST_BIT THEN Short(AndBitMask(b))
    ELSE IF b = 255 THEN Reserved
    ELSE IF b = 128 THEN Indefinite
    ELSE Long(AndBitMask(b))

LengthOctet_encode_len(size) ==
    IF WLe(size, WOf(127)) THEN 1
    ELSE IF WLe(size, WOf(255)) THEN 2
    ELSE IF WLe(size, WOf(65535)) THEN 3
    ELSE 5

\* mutant: the short form taken one size too far (128 written as 0x80)
LengthOctet_octets_Short128(size) ==
    IF WLe(size, WOf(128)) THEN <<size[2] % 256>>
    ELSE IF WLe(size, WOf(255)) THEN <<129, size[2] % 256>>
    ELSE IF WLe(size, WOf(65535)) THEN <<130>> \o BE_write_u16(size)
    ELSE <<132>> \o BE_write_u32(size)

\* the array length_to_buf hands to buf.write
LengthOctet_octets(size) ==
    IF WLe(size, WOf(127)) THEN <<size[2] % 256>>
    ELSE IF WLe(size, WOf(255)) THEN <<129, size[2] % 256>>
    ELSE IF WLe(size, WOf(65535)) THEN <<130>> \o BE_write_u16(size)
    ELSE <<132>> \o BE_write_u32(size)

LengthOctet_length_to_buf(w, size) == Write_write(w, Bytes(LengthOctet_octets(size)))

(***************************************************************************)
(* write_KLVGloval                                                         *)
(***************************************************************************)
KEY_LENGHT == 16
MINIMUM_LENGHT == 18

\* mutant: the length written counts the key with the content
write_KLVGloval_LengthWithKey(w, key, content) ==
    LET k == Write_write_all(w, Bytes(key)) IN
    IF k.ret.tag = "Err" THEN k
    ELSE
        LET l == LengthOctet_length_to_buf(k.w, WAdd(WOf(16), BLen(content)))
            c == Write_write(l.w, content)
        IN  [w |-> c.w, ret |-> Ok(WAdd(WAdd(WOf(16), l.ret.val), c.ret.val))]

write_KLVGloval(w, key, content) ==
    LET k == Write_write_all(w, Bytes(key)) IN
    IF k.ret.tag = "Err" THEN k
    ELSE
        LET l == LengthOctet_length_to_buf(k.w, BLen(content))
            c == Write_write(l.w, content)
        IN  [w |-> c.w, ret |-> Ok(WAdd(WAdd(WOf(16), l.ret.val), c.ret.val))]

(***************************************************************************)
(* KLVGlobal: a view of key(16) ++ BER length ++ content                   *)
(***************************************************************************)
\* mutant: the minimum compared with <= (a frame of 18 bytes is refused)
KLVGlobal_try_from_bytes_Strict(b) ==
    IF WLe(BLen(b), WOf(MINIMUM_LENGHT)) THEN Err("LessLength") ELSE Ok("KLVGlobal")

KLVGlobal_try_from_bytes(b) ==
    IF WLt(BLen(b), WOf(MINIMUM_LENGHT)) THEN Err("LessLength") ELSE Ok("KLVGlobal")

\* &self.0[..16]
KLVGlobal_key(b) ==
    IF WLt(BLen(b), WOf(KEY_LENGHT)) THEN Panic ELSE Ok(BSlice(b, 0, WOf(KEY_LENGHT)))

KLVGlobal_key_is(b, key) ==
    LET k == KLVGlobal_key(b) IN
    IF k.tag = "Panic" THEN Panic ELSE Ok(BEq(Bytes(key), k.val))

\* Some(<<start, end>>), None, or the panic of an index past the end
KLVGlobal_content_range(b) ==
    IF ~BHas(b, 16) THEN Panic
    ELSE
        LET lo == LengthOctet_from_u8(BAt(b, 16)) IN
        IF lo.kind = "Short" THEN SomeV(<<17, WOf(17 + lo.x)>>)
        ELSE IF lo.kind = "Long" THEN
            IF lo.x = 1 THEN
                IF ~BHas(b, 17) THEN Panic ELSE SomeV(<<18, WOf(18 + BAt(b, 17))>>)
            ELSE IF lo.x = 2 THEN
                IF WLt(BLen(b), WOf(19)) THEN Panic
                ELSE SomeV(<<19, WAdd(WOf(19), BE_read_u16(b, 17))>>)
            ELSE IF lo.x = 4 THEN
                IF WLt(BLen(b), WOf(21)) THEN Panic
                ELSE SomeV(<<21, WAdd(WOf(21), BE_read_u32(b, 17))>>)
            ELSE NoneV
        ELSE NoneV

KLVGlobal_content(b) ==
    LET r == KLVGlobal_content_range(b) IN
    IF r.tag = "Panic" THEN Panic
    ELSE IF r.tag = "Some" THEN
        IF WLt(BLen(b), r.val[2]) THEN Panic ELSE Ok(BSlice(b, r.val[1], r.val[2]))
    ELSE
        IF WLt(BLen(b), WOf(18)) THEN Panic ELSE Ok(BSlice(b, 18, BLen(b)))

(***************************************************************************)
(* SpecGlobal: a frame is written (write_KLVGloval), built as the range    *)
(* test builds it, or received from a caller; it is then viewed through    *)
(* KLVGlobal and its accessors are called.                                 *)
(***************************************************************************)
LS_UNIVERSAL_KEY0601_8_10 == <<6, 14, 43, 52, 2, 11, 1, 1, 14, 1, 3, 1, 1, 0, 0, 0>>
DUMMY_DATASET_KEY == <<255, 255, 255, 255, 0, 0, 0, 0, 255, 255, 255, 255, 0, 0, 0, 0>>
Keys == {LS_UNIVERSAL_KEY0601_8_10, DUMMY_DATASET_KEY}

\* u32::MAX as a usize
U32_MAX == <<Limb - 1, Limb - 1>>

\* how far around each boundary of the length forms the sizes are sampled
Spread == 1
\* the longest buffer a caller hands in
MaxRawLen == 22

LenBoundaries ==
    {WOf(0), WOf(127), WOf(128), WOf(255), WOf(256), WOf(65535), WOf(65536), U32_MAX}
SizeSamples ==
    {n \in UNION {{WAdd(b, WOf(d)) : d \in 0..Spread}
                    \cup {WSub(b, WOf(d)) : d \in {e \in 0..Spread : WLe(WOf(e), b)}}
                  : b \in LenBoundaries}
       : WLe(n, U32_MAX)}

\* the first n bytes of the content of test_klv_write followed by 0xff bytes
ContentHeads == {<<>>, <<1, 1, 127, 2, 2, 0, 42>>}
Contents == {BTake(Buf(h, 255, n), n) : h \in ContentHeads, n \in SizeSamples}

\* destination slices too small, just large enough and larger than the frame
Rooms == {WOf(0), WOf(10), WOf(16), WOf(17), WOf(24), WOf(151), U32_MAX}
Writers == {VecWriter} \cup {SliceWriter(r) : r \in Rooms}

\* bytes from a caller: a key, any length octet, then equal octets
RawFollow == {0, 1, 255}
RawBufs ==
    {BTake(Buf(LS_UNIVERSAL_KEY0601_8_10 \o <<b, x, x, x, x>>, x, WOf(MaxRawLen)), WOf(n))
       : b \in Byte, x \in RawFollow, n \in 0..MaxRawLen}

NoSrc ==
    [kind |-> "none", key |-> <<>>, content |-> EmptyBuf, writer |-> "none",
     room |-> WOf(0), wret |-> NoRet, via |-> "none"]

\* Serializer::default()
Serializer_default == [universal_key |-> <<>>, output |-> <<>>, keys |-> {}]

\* Deserializer::from_bytes(input), before deserialize_struct builds the
\* KLVVisitor (len) and the derived visitor its slots (got); target is the
\* type T of from_bytes::<T>, its name and fields
Deserializer_from_bytes(input) ==
    [input |-> input, position |-> 0, len |-> <<0, 0>>, got |-> <<>>,
     target |-> [name |-> <<>>, fields |-> <<>>]]

\* PtsDumpElementaryStreamConsumer::construct: len: None, buf: vec![]
PtsDumpElementaryStreamConsumer_construct == [len |-> NoneV, buf |-> <<>>]

ReaderIdle ==
    /\ consumer = PtsDumpElementaryStreamConsumer_construct
    /\ serializer = Serializer_default
    /\ deserializer = Deserializer_from_bytes(<<>>)
    /\ buf = <<>>
    /\ origin = <<>>
    /\ reader = "none"
    /\ current = 0
    /\ yielded = <<>>

InitGlobal ==
    /\ gbuf = EmptyBuf
    /\ src = NoSrc
    /\ pc = "start"
    /\ op = "none"
    /\ ret = NoRet
    /\ ReaderIdle

readerVars == <<buf, origin, reader, current, yielded, serializer, deserializer, consumer>>

\* write_KLVGloval(&mut w, key, content)
Call_write_KLVGloval ==
    /\ pc = "start"
    /\ \E w \in Writers, key \in Keys, c \in Contents :
         LET r == write_KLVGloval(w, key, c) IN
         /\ gbuf' = r.w.data
         /\ src' = [NoSrc EXCEPT !.kind = "write", !.key = key, !.content = c,
                                 !.writer = w.kind, !.room = w.room, !.wret = r.ret]
         /\ ret' = r.ret
         /\ pc' = IF r.ret.tag = "Ok" THEN "buffer" ELSE "failed"
    /\ op' = "write_KLVGloval"
    /\ UNCHANGED readerVars

\* test_klb_global_range: vec![0; 16], length_to_buf, vec![0xff; size]
Build_global_range ==
    /\ pc = "start"
    /\ \E n \in SizeSamples :
         LET k == Write_write(VecWriter, Filled(0, WOf(16)))
             l == LengthOctet_length_to_buf(k.w, n)
             c == Write_write(l.w, Filled(255, n))
         IN
         /\ gbuf' = c.w.data
         /\ src' = [NoSrc EXCEPT !.kind = "range", !.content = Filled(255, n),
                                 !.writer = "vec", !.wret = l.ret]
         /\ ret' = l.ret
    /\ pc' = "buffer"
    /\ op' = "length_to_buf"
    /\ UNCHANGED readerVars

\* a caller hands in the bytes of a sample (klvelm.rs, mpegts_reader)
Receive ==
    /\ pc = "start"
    /\ \E b \in RawBufs : gbuf' = b
    /\ src' = [NoSrc EXCEPT !.kind = "raw"]
    /\ pc' = "buffer"
    /\ op' = "receive"
    /\ ret' = NoRet
    /\ UNCHANGED readerVars

Call_try_from_bytes ==
    /\ pc = "buffer"
    /\ ret' = KLVGlobal_try_from_bytes(gbuf)
    /\ pc' = IF ret'.tag = "Ok" THEN "view" ELSE "rejected"
    /\ src' = [src EXCEPT !.via = "try_from_bytes"]
    /\ op' = "try_from_bytes"
    /\ UNCHANGED <<gbuf, readerVars>>

\* the unchecked constructor, as the tests call it on frames they built
Call_from_bytes ==
    /\ pc = "buffer"
    /\ src.kind \in {"write", "range"}
    /\ ret' = Ok("KLVGlobal")
    /\ pc' = "view"
    /\ src' = [src EXCEPT !.via = "from_bytes"]
    /\ op' = "from_bytes"
    /\ UNCHANGED <<gbuf, readerVars>>

\* an accessor of the view returns r
Accessor(name, r) ==
    /\ pc = "view"
    /\ op' = name
    /\ ret' = r
    /\ pc' = IF r.tag = "Panic" THEN "panicked" ELSE "view"
    /\ UNCHANGED <<gbuf, src, readerVars>>

Call_key == Accessor("key", KLVGlobal_key(gbuf))
Call_key_is == \E k \in Keys : Accessor("key_is", KLVGlobal_key_is(gbuf, k))
Call_content_range == Accessor("content_range", KLVGlobal_content_range(gbuf))
Call_content == Accessor("content", KLVGlobal_content(gbuf))

NextGlobal ==
    \/ Call_write_KLVGloval
    \/ Build_global_range
    \/ Receive
    \/ Call_try_from_bytes
    \/ Call_from_bytes
    \/ Call_key
    \/ Call_key_is
    \/ Call_content_range
    \/ Call_content

SpecGlobal == InitGlobal /\ [][NextGlobal]_vars

(***************************************************************************)
(* Properties of SpecGlobal                                                *)
(***************************************************************************)
\* the content length the frame in gbuf was built for
BuiltLen == BLen(src.content)
\* the frame in gbuf was written whole: by a Vec, or by a slice with the room
BuiltWhole ==
    \/ src.kind = "range"
    \/ /\ src.kind = "write"
       /\ \/ src.writer = "vec"
          \/ WLe(WAdd(WOf(16 + LengthOctet_encode_len(BuiltLen)), BuiltLen), src.room)

\* the length octets as the specification lists them, by the four cases
StatedOctets(n) ==
    IF n[1] = 0 /\ n[2] <= 127 THEN <<n[2]>>
    ELSE IF n[1] = 0 /\ n[2] <= 255 THEN <<129, n[2]>>
    ELSE IF n[1] = 0 THEN <<130, n[2] \div 256, n[2] % 256>>
    ELSE <<132, n[1] \div 256, n[1] % 256, n[2] \div 256, n[2] % 256>>

\* C1: length_to_buf writes the smallest BER form that fits the size, [size],
\* [0x81, size], [0x82, hi, lo] or [0x84, b3, b2, b1, b0], big-endian, and
\* encode_len(size) is the number of octets so written (1, 2, 3 or 5).
C1_SmallestLengthForm ==
    BuiltWhole =>
        LET oct == StatedOctets(BuiltLen)
            k == Len(oct)
        IN  /\ k \in {1, 2, 3, 5}
            /\ BLen(gbuf) = WAdd(WOf(16 + k), BuiltLen)
            /\ BEq(BSlice(gbuf, 16, WOf(16 + k)), Bytes(oct))
            /\ LengthOctet_encode_len(BuiltLen) = k
            /\ src.kind = "range" => src.wret = Ok(WOf(k))

C1_Witness ==
    /\ src.kind = "range"
    /\ BuiltLen = U32_MAX
    /\ src.wret = Ok(WOf(5))
    /\ BAt(gbuf, 16) = 132

\* C2: a buffer of 16 key bytes, length_to_buf(n) and n content bytes decodes
\* with content_range() = (16 + encode_len(n), 16 + encode_len(n) + n).
C2_LengthRoundTrip ==
    (src.kind = "range" /\ op = "content_range") =>
        LET k == LengthOctet_encode_len(BuiltLen) IN
        /\ ret = SomeV(<<16 + k, WAdd(WOf(16 + k), BuiltLen)>>)
        /\ WSub(ret.val[2], WOf(ret.val[1])) = BuiltLen

C2_Witness ==
    /\ src.kind = "range"
    /\ op = "content_range"
    /\ BuiltLen = WOf(65536)
    /\ ret = SomeV(<<21, WOf(21 + 65536)>>)

\* the class of a first length octet as the specification states it
StatedClass(b) ==
    IF b < 128 THEN Short(b)
    ELSE IF b = 128 THEN Indefinite
    ELSE IF b = 255 THEN Reserved
    ELSE Long(b - 128)

Framed(c) == c.kind = "Short" \/ (c.kind = "Long" /\ c.x \in {1, 2, 4})

\* C3: from_u8(b) is Short(b & 0x7F) when the top bit is clear, Indefinite
\* for 0x80, Reserved for 0xFF and Long(b & 0x7F) otherwise; content_range()
\* yields a range only for Short and Long(1|2|4) and is absent for
\* Indefinite, Reserved and every other k.
C3_LengthOctetClasses ==
    (op = "content_range" /\ BHas(gbuf, 16)) =>
        LET b == BAt(gbuf, 16)
            c == LengthOctet_from_u8(b)
        IN  /\ c = StatedClass(b)
            /\ ret.tag = "Some" => Framed(StatedClass(b))
            /\ ~Framed(StatedClass(b)) => ret = NoneV

C3_Witness ==
    /\ op = "content_range"
    /\ BHas(gbuf, 16)
    /\ BAt(gbuf, 16) = 131
    /\ ret = NoneV

\* C4: try_from_bytes(buf) returns a view if and only if buf.len() >= 18;
\* every shorter buffer is rejected with ParseError::LessLength.
C4_MinimumLength ==
    op = "try_from_bytes" =>
        /\ ret.tag = "Ok" <=> WLe(WOf(18), BLen(gbuf))
        /\ WLt(BLen(gbuf), WOf(18)) => (ret = Err("LessLength") /\ pc = "rejected")

C4_Witness ==
    /\ op = "try_from_bytes"
    /\ BLen(gbuf) = WOf(17)
    /\ ret = Err("LessLength")

\* C5: for every buffer try_from_bytes accepts, key(), key_is() and content()
\* never panic.
C5_AccessorsNeverPanic ==
    (src.via = "try_from_bytes" /\ op \in {"key", "key_is", "content"}) =>
        ret.tag # "Panic"

\* C6: the bytes write_KLVGloval(K, c) produces, viewed through KLVGlobal,
\* give content() = c and key() = K, and the size returned is
\* 16 + encode_len(c.len()) + c.len().
C6_ContainerRoundTrip ==
    (src.kind = "write" /\ BuiltWhole) =>
        /\ src.wret =
             Ok(WAdd(WOf(16 + LengthOctet_encode_len(BuiltLen)), BuiltLen))
        /\ op = "content" => (ret.tag = "Ok" /\ BEq(ret.val, src.content))
        /\ op = "key" => (ret.tag = "Ok" /\ BEq(ret.val, Bytes(src.key)))
        /\ op = "key_is" => ret.tag = "Ok"

C6_Witness ==
    /\ src.kind = "write"
    /\ src.writer = "vec"
    /\ op = "content"
    /\ BuiltLen = U32_MAX
    /\ ret.tag = "Ok"
    /\ BLen(ret.val) = U32_MAX

(***************************************************************************)
(* Value (value.rs): what a data set item decodes to.  Integers of up to   *)
(* 31 bits are numbers; a u32 is two 16-bit limbs <<hi, lo>>; a SystemTime *)
(* is the seconds since the epoch (eight base-256 digits, most significant *)
(* first) and the nanoseconds of the second; a String is its UTF-8 bytes.  *)
(***************************************************************************)
Value(variant, v) == [variant |-> variant, v |-> v]

\* x[0], or the panic of indexing an empty slice
Value_from_u8(x) == IF Len(x) < 1 THEN Panic ELSE Ok(Value("U8", x[1]))

\* BigEndian::read_u16 / read_i16 / read_u32 / read_i32 take the first bytes
\* of the slice and panic when it is shorter than the integer
Value_as_u16(x) ==
    IF Len(x) < 2 THEN Panic ELSE Ok(Value("U16", x[1] * 256 + x[2]))

Value_as_i16(x) ==
    IF Len(x) < 2 THEN Panic
    ELSE Ok(Value("I16", (IF x[1] >= 128 THEN x[1] - 256 ELSE x[1]) * 256 + x[2]))

Value_as_u32(x) ==
    IF Len(x) < 4 THEN Panic
    ELSE Ok(Value("U32", <<x[1] * 256 + x[2], x[3] * 256 + x[4]>>))

\* mutant: the four octets read least significant first
Value_as_i32_LittleEndian(x) ==
    IF Len(x) < 4 THEN Panic
    ELSE Ok(Value("I32", (IF x[4] >= 128 THEN x[4] - 256 ELSE x[4]) * 16777216
                           + x[3] * 65536 + x[2] * 256 + x[1]))

Value_as_i32(x) ==
    IF Len(x) < 4 THEN Panic
    ELSE Ok(Value("I32", (IF x[1] >= 128 THEN x[1] - 256 ELSE x[1]) * 16777216
                           + x[2] * 65536 + x[3] * 256 + x[4]))

\* std::str::from_utf8: the bytes from index i on are well-formed UTF-8
\* the number of bytes of the character a byte starts: 1 to 4, or 0 for a
\* byte that starts none
Utf8Width(b) ==
    IF b < 128 THEN 1
    ELSE IF b >= 194 /\ b <= 223 THEN 2
    ELSE IF b >= 224 /\ b <= 239 THEN 3
    ELSE IF b >= 240 /\ b <= 244 THEN 4
    ELSE 0

\* std::str::from_utf8 accepts x: every byte that is not a continuation byte
\* starts a well-formed character, whose continuation bytes are exactly the
\* bytes up to the next start
Utf8(x) ==
    LET n == Len(x)
        Cont(j) == j <= n /\ x[j] >= 128 /\ x[j] <= 191
        In(j, lo, hi) == j <= n /\ x[j] >= lo /\ x[j] <= hi
        Second(i) ==
            CASE x[i] = 224 -> In(i + 1, 160, 191)
              [] x[i] = 237 -> In(i + 1, 128, 159)
              [] x[i] = 240 -> In(i + 1, 144, 191)
              [] x[i] = 244 -> In(i + 1, 128, 143)
              [] OTHER -> Cont(i + 1)
    IN
    /\ n > 0 => ~Cont(1)
    /\ \A i \in 1..n :
          ~Cont(i) =>
              LET w == Utf8Width(x[i]) IN
              /\ w > 0
              /\ w > 1 => Second(i)
              /\ \A j \in (i + 2)..(i + w - 1) : Cont(j)
              /\ ~Cont(i + w)

\* String::from_utf8(x.to_owned()).unwrap()
Value_as_string(x) == IF Utf8(x) THEN Ok(Value("String", x)) ELSE Panic

\* Duration::from_micros(read_u64(x)): long division of the eight digits by
\* 1_000_000; the quotient digits are the seconds, the remainder the micros
RECURSIVE DivMicros(_, _, _, _)
DivMicros(x, i, rem, q) ==
    IF i > 8 THEN [secs |-> q, micros |-> rem]
    ELSE LET cur == rem * 256 + x[i] IN
         DivMicros(x, i + 1, cur % 1000000, Append(q, cur \div 1000000))

\* UNIX_EPOCH.checked_add(d): the seconds are at most 2^64 / 10^6 and fit the
\* i64 of a timespec, so the sum exists
Value_as_timestamp(x) ==
    IF Len(x) < 8 THEN Panic
    ELSE LET d == DivMicros(x, 1, 0, <<>>) IN
         Ok(Value("Timestamp", [secs |-> d.secs, nanos |-> d.micros * 1000, sign |-> 1]))

\* x[0] as i8 / x[0]
Value_as_i8(x) ==
    IF Len(x) < 1 THEN Panic
    ELSE Ok(Value("I8", IF x[1] >= 128 THEN x[1] - 256 ELSE x[1]))
Value_as_u8(x) == IF Len(x) < 1 THEN Panic ELSE Ok(Value("U8", x[1]))

\* BigEndian::read_u64: a u64 is kept as four 16-bit limbs, most significant
\* first; an i64 has a signed first limb
BE_read_u64(x) ==
    <<x[1] * 256 + x[2], x[3] * 256 + x[4], x[5] * 256 + x[6], x[7] * 256 + x[8]>>
Value_as_u64(x) == IF Len(x) < 8 THEN Panic ELSE Ok(Value("U64", BE_read_u64(x)))
Value_as_i64(x) ==
    IF Len(x) < 8 THEN Panic
    ELSE LET u == BE_read_u64(x) IN
         Ok(Value("I64", <<IF u[1] >= 32768 THEN u[1] - Limb ELSE u[1], u[2], u[3], u[4]>>))

\* Duration::new(secs, nanos): the whole seconds of nanos are carried into
\* secs, and an overflow of the u64 panics
RECURSIVE Duration_new(_, _)
Duration_new(secs, nanos) ==
    IF WLe(WOf(1000000000), nanos) THEN
        LET l4 == secs[4] + 1
            l3 == secs[3] + (l4 \div Limb)
            l2 == secs[2] + (l3 \div Limb)
            l1 == secs[1] + (l2 \div Limb)
        IN  IF l1 >= Limb THEN Panic
            ELSE Duration_new(<<l1, l2 % Limb, l3 % Limb, l4 % Limb>>,
                              WSub(nanos, WOf(1000000000)))
    ELSE Ok(Value("Duration", [secs |-> secs, nanos |-> WSmall(nanos)]))

\* mutant: the nanoseconds are read from the low half of the seconds
Value_as_duration_Overlap(x) ==
    IF Len(x) < 12 THEN Panic
    ELSE Duration_new(BE_read_u64(x), <<x[5] * 256 + x[6], x[7] * 256 + x[8]>>)

\* read_u64(x), then read_u32(&x[8..])
Value_as_duration(x) ==
    IF Len(x) < 12 THEN Panic
    ELSE Duration_new(BE_read_u64(x), <<x[9] * 256 + x[10], x[11] * 256 + x[12]>>)

\* the two octets of a 16-bit limb
LimbOctets(l) == <<l \div 256, l % 256>>
\* write_u64::<BigEndian> / write_i64::<BigEndian> (two's complement)
BE_write_u64(x) == LimbOctets(x[1]) \o LimbOctets(x[2]) \o LimbOctets(x[3]) \o LimbOctets(x[4])
BE_write_i64(x) == BE_write_u64(<<x[1] % Limb, x[2], x[3], x[4]>>)
\* write_i16 / write_i32 (two's complement)
BE_write_i16(x) == LimbOctets(x % Limb)
BE_write_i32(x) == LimbOctets((x \div Limb) % Limb) \o LimbOctets(x % Limb)

\* x.duration_since(UNIX_EPOCH).unwrap().as_micros() as u64: the seconds q
\* (eight base-256 digits) times 1_000_000 plus the whole microseconds, the
\* digits above the eighth dropped by the cast
RECURSIVE SystemTime_micros(_, _, _, _)
SystemTime_micros(q, i, carry, acc) ==
    IF i = 0 THEN acc
    ELSE LET t == q[i] * 1000000 + carry IN
         SystemTime_micros(q, i - 1, t \div 256, <<t % 256>> \o acc)

\* write_all of the octets, then map(|_| n)
Write_fixed(w, octets) ==
    LET r == Write_write_all(w, Bytes(octets)) IN
    IF r.ret.tag = "Err" THEN r ELSE [w |-> r.w, ret |-> Ok(WOf(Len(octets)))]

\* Value::to_bytes: the writer afterwards and the result
Value_to_bytes(w, x) ==
    CASE x.variant = "U8" -> Write_write(w, Bytes(<<x.v>>))
      [] x.variant = "U16" -> Write_fixed(w, LimbOctets(x.v))
      [] x.variant = "U32" -> Write_fixed(w, LimbOctets(x.v[1]) \o LimbOctets(x.v[2]))
      [] x.variant = "U64" -> Write_fixed(w, BE_write_u64(x.v))
      [] x.variant = "I8" -> Write_write(w, Bytes(<<x.v % 256>>))
      [] x.variant = "I16" -> Write_fixed(w, BE_write_i16(x.v))
      [] x.variant = "I32" -> Write_fixed(w, BE_write_i32(x.v))
      [] x.variant = "I64" -> Write_fixed(w, BE_write_i64(x.v))
      [] x.variant = "String" -> Write_write(w, Bytes(x.v))
      [] x.variant = "Timestamp" ->
            IF x.v.sign < 0 THEN [w |-> w, ret |-> Panic]
            ELSE Write_fixed(w, SystemTime_micros(x.v.secs, 8, x.v.nanos \div 1000, <<>>))
      [] x.variant = "Duration" ->
            LET a == Write_write_all(w, Bytes(BE_write_u64(x.v.secs))) IN
            IF a.ret.tag = "Err" THEN a
            ELSE LET b == Write_write_all(a.w, Bytes(BE_write_u32(WOf(x.v.nanos)))) IN
                 IF b.ret.tag = "Err" THEN b ELSE [w |-> b.w, ret |-> Ok(WOf(12))]

\* Value::len
Value_len(x) ==
    CASE x.variant \in {"U8", "I8"} -> 1
      [] x.variant \in {"U16", "I16"} -> 2
      [] x.variant \in {"U32", "I32"} -> 4
      [] x.variant \in {"U64", "I64"} -> 8
      [] x.variant = "String" -> Len(x.v)
      [] x.variant = "Timestamp" -> 8
      [] x.variant = "Duration" -> 12

(***************************************************************************)
(* UASDataset (uasdls.rs): the tags of MISB ST 0601 and their decoders     *)
(***************************************************************************)
\* the enum's discriminants (#[repr(u8)])
UASDataset_discriminant ==
    [Checksum |-> 1, Timestamp |-> 2, PlatformHeadingAngle |-> 5,
     PlatformPitchAngle |-> 6, PlatformRollAngle |-> 7, ImageSourceSensor |-> 11,
     ImageCoordinateSensor |-> 12, SensorLatitude |-> 13, SensorLongtude |-> 14,
     SensorTrueAltitude |-> 15, SensorHorizontalFOV |-> 16, SensorVerticalFOV |-> 17,
     SensorRelativeAzimuthAngle |-> 18, SensorRelativeElevationAngle |-> 19,
     SensorRelativeRollAngle |-> 20, SlantRange |-> 21, TargetWidth |-> 22,
     FrameCenterLatitude |-> 23, FrameCenterLongitude |-> 24,
     FrameCenterElevation |-> 25, TargetLocationLatitude |-> 40,
     TargetLocationLongitude |-> 41, TargetLocationElevation |-> 42,
     PlatformGroundSpeed |-> 56, GroundRange |-> 57, LSVersionNumber |-> 65]

UASDataset == DOMAIN UASDataset_discriminant

\* `tag as u8`
UASDataset_as_u8(t) == UASDataset_discriminant[t]

\* std::mem::transmute(x): the variant whose discriminant is x
Transmute(x) == CHOOSE t \in UASDataset : UASDataset_as_u8(t) = x

\* mutant: the arm of LSVersionNumber is missing
UASDataset_try_from_NoVersion(x) ==
    IF x \in {1, 2, 5, 6, 7} \cup (11..25) \cup (40..42) \cup {56, 57}
    THEN Ok(Transmute(x)) ELSE Err(<<>>)

UASDataset_try_from(x) ==
    IF x = UASDataset_as_u8("Checksum") THEN Ok("Checksum")
    ELSE IF x = UASDataset_as_u8("Timestamp") THEN Ok("Timestamp")
    ELSE IF x = UASDataset_as_u8("PlatformHeadingAngle") THEN Ok("PlatformHeadingAngle")
    ELSE IF x = UASDataset_as_u8("PlatformPitchAngle") THEN Ok("PlatformPitchAngle")
    ELSE IF x = UASDataset_as_u8("PlatformRollAngle") THEN Ok("PlatformRollAngle")
    ELSE IF x >= UASDataset_as_u8("ImageSourceSensor")
            /\ x <= UASDataset_as_u8("FrameCenterElevation") THEN Ok(Transmute(x))
    ELSE IF x >= UASDataset_as_u8("TargetLocationLatitude")
            /\ x <= UASDataset_as_u8("TargetLocationElevation") THEN Ok(Transmute(x))
    ELSE IF x = UASDataset_as_u8("PlatformGroundSpeed") THEN Ok("PlatformGroundSpeed")
    ELSE IF x = UASDataset_as_u8("GroundRange") THEN Ok("GroundRange")
    ELSE IF x = UASDataset_as_u8("LSVersionNumber") THEN Ok("LSVersionNumber")
    ELSE Err(<<>>)

UASDataset_from_byte(b) ==
    LET x == UASDataset_try_from(b) IN
    IF x.tag = "Ok" THEN SomeV(x.val) ELSE NoneV

\* from_byte of the first data set (src/src/uasdms.rs): one arm for each byte
src_UASDataset_from_byte(b) ==
    CASE b = 1 -> SomeV("Checksum")
      [] b = 2 -> SomeV("Timestamp")
      [] b = 5 -> SomeV("PlatformHeadingAngle")
      [] b = 6 -> SomeV("PlatformPitchAngle")
      [] b = 7 -> SomeV("PlatformRollAngle")
      [] b = 11 -> SomeV("ImageSourceSensor")
      [] b = 12 -> SomeV("ImageCoordinateSensor")
      [] b = 13 -> SomeV("SensorLatitude")
      [] b = 14 -> SomeV("SensorLongtude")
      [] b = 15 -> SomeV("SensorTrueAltitude")
      [] b = 16 -> SomeV("SensorHorizontalFOV")
      [] b = 17 -> SomeV("SensorVerticalFOV")
      [] b = 18 -> SomeV("SensorRelativeAzimuthAngle")
      [] b = 19 -> SomeV("SensorRelativeElevationAngle")
      [] b = 20 -> SomeV("SensorRelativeRollAngle")
      [] b = 21 -> SomeV("SlantRange")
      [] b = 22 -> SomeV("TargetWidth")
      [] b = 23 -> SomeV("FrameCenterLatitude")
      [] b = 24 -> SomeV("FrameCenterLongitude")
      [] b = 25 -> SomeV("FrameCenterElevation")
      [] b = 40 -> SomeV("TargetLocationLatitude")
      [] b = 41 -> SomeV("TargetLocationLongitude")
      [] b = 42 -> SomeV("TargetLocationElevation")
      [] b = 56 -> SomeV("PlatformGroundSpeed")
      [] b = 57 -> SomeV("GroundRange")
      [] b = 65 -> SomeV("LSVersionNumber")
      [] OTHER -> NoneV

UASDataset_value(key, v) ==
    IF key = "Timestamp" THEN Value_as_timestamp(v)
    ELSE IF key \in {"PlatformGroundSpeed", "LSVersionNumber", "Checksum"}
        THEN Value_from_u8(v)
    ELSE IF key \in {"PlatformHeadingAngle", "SensorTrueAltitude", "SensorHorizontalFOV",
                     "SensorVerticalFOV", "FrameCenterElevation",
                     "TargetLocationElevation"}
        THEN Value_as_u16(v)
    ELSE IF key \in {"PlatformPitchAngle", "PlatformRollAngle"} THEN Value_as_i16(v)
    ELSE IF key \in {"SensorLatitude", "SensorLongtude", "SensorRelativeElevationAngle",
                     "SensorRelativeRollAngle", "FrameCenterLatitude",
                     "FrameCenterLongitude", "TargetLocationLatitude",
                     "TargetLocationLongitude"}
        THEN Value_as_i32(v)
    ELSE IF key \in {"SensorRelativeAzimuthAngle", "SlantRange", "TargetWidth",
                     "GroundRange"}
        THEN Value_as_u32(v)
    ELSE Value_as_string(v)

\* DataSet::expect_length: the trait's default, which UASDataset keeps
UASDataset_expect_length(key, len) == TRUE

(***************************************************************************)
(* Short-form records: KLVRaw, KLV<K> and the two iterators                *)
(***************************************************************************)
\* KLVRawReader::next on (buf, current): the new cursor and what is returned
KLVRawReader_next(b, cur) ==
    IF cur >= Len(b) THEN [current |-> cur, ret |-> NoneV]
    ELSE IF cur + 1 >= Len(b) THEN [current |-> cur, ret |-> Panic]
    ELSE LET len == b[cur + 2]
             nxt == cur + 2 + len
         IN  IF nxt > Len(b) THEN [current |-> nxt, ret |-> Panic]
             ELSE [current |-> nxt, ret |-> SomeV(SubSeq(b, cur + 1, nxt))]

\* mutant: the end test asks for two more bytes than a record needs, so a
\* zero-length record at the end of the buffer is dropped
KLVReader_next_DropsLast(b, cur) ==
    IF cur + 2 >= Len(b) THEN [current |-> cur, ret |-> NoneV]
    ELSE LET len == b[cur + 2]
             nxt == cur + 2 + len
         IN  IF nxt > Len(b) THEN [current |-> nxt, ret |-> Panic]
             ELSE [current |-> nxt, ret |-> SomeV(SubSeq(b, cur + 1, nxt))]

\* KLVReader::next on (buf, current)
KLVReader_next(b, cur) ==
    IF cur >= Len(b) THEN [current |-> cur, ret |-> NoneV]
    ELSE IF cur + 1 >= Len(b) THEN [current |-> cur, ret |-> Panic]
    ELSE LET len == b[cur + 2]
             nxt == cur + 2 + len
         IN  IF nxt > Len(b) THEN [current |-> nxt, ret |-> Panic]
             ELSE [current |-> nxt, ret |-> SomeV(SubSeq(b, cur + 1, nxt))]

\* the accessors of a view v; an index past its end panics
KLVRaw_key(v) == IF Len(v) < 1 THEN Panic ELSE Ok(v[1])
KLVRaw_len(v) == IF Len(v) < 2 THEN Panic ELSE Ok(v[2])
KLVRaw_content(v) ==
    IF Len(v) < 2 \/ 2 + v[2] > Len(v) THEN Panic ELSE Ok(SubSeq(v, 3, 2 + v[2]))

\* KLV::<K>::MINIMUM_LENGHT
KLV_MINIMUM_LENGHT == 3

\* KLV::try_from_bytes(buf): the second test is made only when the first
\* is false
KLV_try_from_bytes(b) ==
    IF Len(b) < KLV_MINIMUM_LENGHT \/ Len(b) < b[2] THEN Err("LessLength") ELSE Ok(b)

KLV_key(v) ==
    IF Len(v) < 1 THEN Panic
    ELSE LET k == UASDataset_from_byte(v[1]) IN
         IF k.tag = "Some" THEN Ok(k.val) ELSE Err(<<"UndefinedID", v[1]>>)
KLV_len(v) == IF Len(v) < 2 THEN Panic ELSE Ok(v[2])
KLV_content(v) ==
    IF Len(v) < 2 \/ 2 + v[2] > Len(v) THEN Panic ELSE Ok(SubSeq(v, 3, 2 + v[2]))

KLV_parse(v) ==
    LET key == KLV_key(v) IN
    IF key.tag # "Ok" THEN key
    ELSE IF KLV_len(v).tag = "Panic" THEN Panic
    ELSE IF ~UASDataset_expect_length(key.val, KLV_len(v).val)
        THEN Err(<<"UnexpectLength", KLV_len(v).val>>)
    ELSE IF KLV_content(v).tag = "Panic" THEN Panic
    ELSE UASDataset_value(key.val, KLV_content(v).val)

(***************************************************************************)
(* SpecRecords: an iterator is made over a buffer, next() is called until  *)
(* it returns None, and the accessors of each view it yields are called.   *)
(***************************************************************************)
\* the longest buffer of arbitrary bytes and of small records
MaxBufLen == 5
\* the longest payload of a data set record
MaxValueLen == 9

\* tags, lengths and payload bytes of the small buffers
RBytes == {0, 1, 2, 3}

Record(t, p) == [tag |-> t, payload |-> p]

\* the bytes of a record list: tag, length, payload of each in turn
RECURSIVE Concat(_)
Concat(recs) ==
    IF recs = <<>> THEN <<>>
    ELSE <<recs[1].tag, Len(recs[1].payload)>> \o recs[1].payload \o Concat(Tail(recs))

\* the record lists of at most n bytes over RBytes
RECURSIVE RecordLists(_)
RecordLists(n) ==
    {<<>>} \cup
    UNION {{<<Record(t, p)>> \o l :
              t \in RBytes, p \in [1..k -> RBytes], l \in RecordLists(n - 2 - k)}
           : k \in 0..(n - 2)}

PayloadPatterns == {"zero", "ones", "ramp", "high", "utf8"}
Pattern(p, l) ==
    [i \in 1..l |->
        CASE p = "zero" -> 0
          [] p = "ones" -> 255
          [] p = "ramp" -> i
          [] p = "high" -> 256 - i
          [] p = "utf8" -> IF i % 2 = 1 THEN 195 ELSE 169]

\* every tag of the data set and some bytes it does not define
SchemaBytes == {UASDataset_as_u8(t) : t \in UASDataset} \cup {0, 3, 66}
SchemaRecords ==
    {Record(t, Pattern(p, l)) : t \in SchemaBytes, p \in PayloadPatterns, l \in 0..MaxValueLen}

\* the sample of test_uas_datalink_ls
S1Records ==
    <<
      [tag |-> 2, payload |-> <<0, 4, 108, 142, 32, 3, 131, 133>>],
      [tag |-> 65, payload |-> <<1>>],
      [tag |-> 5, payload |-> <<61, 59>>],
      [tag |-> 6, payload |-> <<21, 128>>],
      [tag |-> 7, payload |-> <<1, 82>>],
      [tag |-> 11, payload |-> <<69, 79, 78>>],
      [tag |-> 12, payload |-> <<71, 101, 111, 100, 101, 116, 105, 99, 32, 87, 71, 83, 56, 52>>],
      [tag |-> 13, payload |-> <<77, 196, 220, 187>>],
      [tag |-> 14, payload |-> <<177, 168, 108, 254>>],
      [tag |-> 15, payload |-> <<31, 74>>],
      [tag |-> 16, payload |-> <<0, 133>>],
      [tag |-> 17, payload |-> <<0, 75>>],
      [tag |-> 18, payload |-> <<32, 200, 210, 125>>],
      [tag |-> 19, payload |-> <<252, 221, 2, 216>>],
      [tag |-> 20, payload |-> <<254, 184, 203, 97>>],
      [tag |-> 21, payload |-> <<0, 143, 62, 97>>],
      [tag |-> 22, payload |-> <<0, 0, 1, 201>>],
      [tag |-> 23, payload |-> <<77, 221, 140, 42>>],
      [tag |-> 24, payload |-> <<177, 190, 158, 244>>],
      [tag |-> 25, payload |-> <<11, 133>>],
      [tag |-> 40, payload |-> <<77, 221, 140, 42>>],
      [tag |-> 41, payload |-> <<177, 190, 158, 244>>],
      [tag |-> 42, payload |-> <<11, 133>>],
      [tag |-> 56, payload |-> <<46>>],
      [tag |-> 57, payload |-> <<0, 141, 212, 41>>],
      [tag |-> 1, payload |-> <<28, 95>>]
    >>
\* an empty record of every tag byte
AllTagRecords == {Record(t, <<>>) : t \in Byte}
Origins ==
    RecordLists(MaxBufLen) \cup {<<r>> : r \in SchemaRecords \cup AllTagRecords}
    \cup {S1Records}
RawSeqs == UNION {[1..n -> RBytes] : n \in 0..MaxBufLen}

InitRecords ==
    /\ consumer = PtsDumpElementaryStreamConsumer_construct
    /\ serializer = Serializer_default
    /\ deserializer = Deserializer_from_bytes(<<>>)
    /\ gbuf = EmptyBuf
    /\ pc = "iter"
    /\ op = "none"
    /\ ret = NoRet
    /\ current = 0
    /\ yielded = <<>>
    \* an iterator over the buffer, or the buffer viewed as one record
    /\ reader \in {"KLVRawReader", "KLVReader", "KLV"}
    /\ \/ \E o \in Origins :
            /\ origin = o
            /\ buf = Concat(o)
            /\ src = [NoSrc EXCEPT !.kind = "concat"]
       \/ /\ buf \in RawSeqs
          /\ origin = <<>>
          /\ src = [NoSrc EXCEPT !.kind = "raw"]

\* next() returned r
Advance(r) ==
    /\ pc \in {"iter", "done"}
    /\ op' = "next"
    /\ current' = r.current
    /\ ret' = r.ret
    /\ yielded' = IF r.ret.tag = "Some" THEN Append(yielded, r.ret.val) ELSE yielded
    /\ pc' = CASE r.ret.tag = "Some" -> "iter"
               [] r.ret.tag = "None" -> "done"
               [] OTHER -> "panicked"
    /\ UNCHANGED <<gbuf, src, buf, origin, reader, serializer, deserializer, consumer>>

Call_KLVRawReader_next ==
    /\ reader = "KLVRawReader"
    /\ Advance(KLVRawReader_next(buf, current))

Call_KLVReader_next ==
    /\ reader = "KLVReader"
    /\ Advance(KLVReader_next(buf, current))

\* KLV::<UASDataset>::try_from_bytes(buf): the view when it is accepted
Call_KLV_try_from_bytes ==
    /\ reader = "KLV"
    /\ pc = "iter"
    /\ yielded = <<>>
    /\ op' = "try_from_bytes"
    /\ ret' = KLV_try_from_bytes(buf)
    /\ yielded' = IF ret'.tag = "Ok" THEN <<buf>> ELSE yielded
    /\ pc' = IF ret'.tag = "Ok" THEN "iter" ELSE "refused"
    /\ UNCHANGED <<gbuf, src, buf, origin, reader, current, serializer, deserializer, consumer>>

\* the body of the caller's loop calls an accessor of the view just yielded
OnView(kind, name, r) ==
    /\ reader \in {kind, "KLV"}
    /\ reader = "KLV" => kind = "KLVReader"
    /\ pc = "iter"
    /\ yielded # <<>>
    /\ op' = name
    /\ ret' = r
    /\ pc' = IF r.tag = "Panic" THEN "panicked" ELSE "iter"
    /\ UNCHANGED <<gbuf, src, buf, origin, reader, current, yielded, serializer, deserializer,
                 consumer>>

View == yielded[Len(yielded)]

Call_KLVRaw_key == OnView("KLVRawReader", "key", KLVRaw_key(View))
Call_KLVRaw_len == OnView("KLVRawReader", "len", KLVRaw_len(View))
Call_KLVRaw_content == OnView("KLVRawReader", "content", KLVRaw_content(View))
Call_KLV_key == OnView("KLVReader", "key", KLV_key(View))
Call_KLV_len == OnView("KLVReader", "len", KLV_len(View))
Call_KLV_content == OnView("KLVReader", "content", KLV_content(View))
Call_KLV_parse == OnView("KLVReader", "parse", KLV_parse(View))

NextRecords ==
    \/ Call_KLVRawReader_next
    \/ Call_KLVReader_next
    \/ Call_KLV_try_from_bytes
    \/ Call_KLVRaw_key
    \/ Call_KLVRaw_len
    \/ Call_KLVRaw_content
    \/ Call_KLV_key
    \/ Call_KLV_len
    \/ Call_KLV_content
    \/ Call_KLV_parse

SpecRecords == InitRecords /\ [][NextRecords]_vars

\* SpecIteration: a for loop over an iterator, which calls next() again as
\* long as the last call returned; the body of the loop has the views only
\* and is left out
NextIteration ==
    \/ Call_KLVRawReader_next
    \/ Call_KLVReader_next

SpecIteration ==
    /\ InitRecords
    /\ [][NextIteration]_vars
    /\ WF_vars(Call_KLVRawReader_next)
    /\ WF_vars(Call_KLVReader_next)

(***************************************************************************)
(* Properties of SpecRecords                                               *)
(***************************************************************************)
\* the bytes the data set defines, as the specification's table lists them
StatedBytes == {1, 2, 5, 6, 7} \cup (11..25) \cup {40, 41, 42, 56, 57, 65}

\* key() of a typed view names the tag byte t
NamesTag(k, t) ==
    IF t \in StatedBytes THEN k.tag = "Ok" /\ UASDataset_as_u8(k.val) = t
    ELSE k = Err(<<"UndefinedID", t>>)

\* the view v is the record r, seen through the accessors of the reader
ViewIs(v, r) ==
    IF reader = "KLVRawReader" THEN
        /\ KLVRaw_key(v) = Ok(r.tag)
        /\ KLVRaw_len(v) = Ok(Len(r.payload))
        /\ KLVRaw_content(v) = Ok(r.payload)
    ELSE
        /\ NamesTag(KLV_key(v), r.tag)
        /\ KLV_len(v) = Ok(Len(r.payload))
        /\ KLV_content(v) = Ok(r.payload)

\* C7: over the concatenation of records (tag, len, payload), zero-length
\* records included, KLVRawReader and KLVReader yield exactly one view per
\* record, in byte order, with key() = tag, len() = len and content() =
\* payload, and then return None.
C7_IteratorCompleteness ==
    src.kind = "concat" =>
        /\ op = "next" => ret.tag # "Panic"
        /\ Len(yielded) <= Len(origin)
        /\ \A i \in 1..Len(yielded) : ViewIs(yielded[i], origin[i])
        /\ (op = "next" /\ ret.tag = "Some") => ret.val = yielded[Len(yielded)]
        /\ (pc = "done" \/ (op = "next" /\ ret = NoneV)) => Len(yielded) = Len(origin)
        /\ (op = "key" /\ reader = "KLVRawReader") => ret = Ok(origin[Len(yielded)].tag)
        /\ (op = "key" /\ reader = "KLVReader") => NamesTag(ret, origin[Len(yielded)].tag)
        /\ op = "len" => ret = Ok(Len(origin[Len(yielded)].payload))
        /\ op = "content" => ret = Ok(origin[Len(yielded)].payload)

C7_Witness ==
    /\ src.kind = "concat"
    /\ reader = "KLVReader"
    /\ pc = "done"
    /\ ret = NoneV
    /\ Len(origin) = 2
    /\ origin[2].payload = <<>>
    /\ Len(yielded) = 2

\* C8: on every content buffer, malformed ones included, iteration halts
\* without panic: a declared length past the end of the slice, or a lone tag
\* byte, silently ends the iteration.
C8_IterationNeverPanics ==
    op = "next" => (ret.tag # "Panic" /\ pc # "panicked")

\* the fixed widths of the specification's table, by tag byte
StatedWidth ==
    (2 :> 8) @@ (5 :> 2) @@ (6 :> 2) @@ (7 :> 2) @@ (13 :> 4) @@ (14 :> 4)
    @@ (15 :> 2) @@ (16 :> 2) @@ (17 :> 2) @@ (18 :> 4) @@ (19 :> 4) @@ (20 :> 4)
    @@ (21 :> 4) @@ (22 :> 4) @@ (23 :> 4) @@ (24 :> 4) @@ (25 :> 2) @@ (40 :> 4)
    @@ (41 :> 4) @@ (42 :> 2) @@ (56 :> 1) @@ (57 :> 4) @@ (65 :> 1)

\* C9: KLV::parse on a record of a fixed-width tag whose length byte differs
\* from that width returns ParseError::UnexpectLength.
C9_UnexpectedLength ==
    (op = "parse" /\ View[1] \in DOMAIN StatedWidth /\ View[2] # StatedWidth[View[1]]) =>
        ret = Err(<<"UnexpectLength", View[2]>>)

\* the variants of the specification's table, by tag byte
StatedVariant ==
    (2 :> "Timestamp") @@ (5 :> "U16") @@ (6 :> "I16") @@ (7 :> "I16")
    @@ (13 :> "I32") @@ (14 :> "I32") @@ (15 :> "U16") @@ (16 :> "U16")
    @@ (17 :> "U16") @@ (18 :> "U32") @@ (19 :> "I32") @@ (20 :> "I32")
    @@ (21 :> "U32") @@ (22 :> "U32") @@ (23 :> "I32") @@ (24 :> "I32")
    @@ (25 :> "U16") @@ (40 :> "I32") @@ (41 :> "I32") @@ (42 :> "U16")
    @@ (56 :> "U8") @@ (57 :> "U32") @@ (65 :> "U8")

\* eight base-256 digits q times 1_000_000 plus carry, least significant
\* digit first: the digits of the product, or <<>> when it needs a ninth
RECURSIVE MulMicros(_, _, _, _)
MulMicros(q, i, carry, acc) ==
    IF i = 0 THEN (IF carry = 0 THEN acc ELSE <<>>)
    ELSE LET t == q[i] * 1000000 + carry IN
         MulMicros(q, i - 1, t \div 256, <<t % 256>> \o acc)

\* p is the big-endian encoding of the value x
Encodes(x, p) ==
    CASE x.variant = "U8" -> x.v \in 0..255 /\ p = <<x.v>>
      [] x.variant = "U16" ->
            x.v \in 0..65535 /\ p = <<x.v \div 256, x.v % 256>>
      [] x.variant = "I16" ->
            /\ x.v \in -32768..32767
            /\ LET u == IF x.v < 0 THEN x.v + 65536 ELSE x.v IN
               p = <<u \div 256, u % 256>>
      [] x.variant = "U32" ->
            /\ x.v[1] \in 0..65535 /\ x.v[2] \in 0..65535
            /\ p = <<x.v[1] \div 256, x.v[1] % 256, x.v[2] \div 256, x.v[2] % 256>>
      [] x.variant = "I32" ->
            LET low == x.v % 16777216
                top == (x.v - low) \div 16777216
            IN  /\ top \in -128..127
                /\ p = <<IF top < 0 THEN top + 256 ELSE top,
                         low \div 65536, (low \div 256) % 256, low % 256>>
      [] x.variant = "Timestamp" ->
            /\ x.v.nanos \in 0..999999999
            /\ x.v.nanos % 1000 = 0
            /\ Len(x.v.secs) = 8
            /\ p = MulMicros(x.v.secs, 8, x.v.nanos \div 1000, <<>>)
      [] OTHER -> FALSE

\* the number eight base-256 digits stand for, when it is below 2^31
RECURSIVE DigitsValue(_)
DigitsValue(q) ==
    IF q = <<>> THEN 0 ELSE DigitsValue(SubSeq(q, 1, Len(q) - 1)) * 256 + q[Len(q)]

Ascii(p) == \A i \in 1..Len(p) : p[i] < 128

\* C10: value(payload) on a payload of the tag's width yields the variant of
\* the schema table built from the big-endian reading of the payload; a
\* string tag yields the String of its payload.  On the S1 sample: heading
\* 15675, sensor latitude 1304747195, LS version 1, "EON", "Geodetic WGS84"
\* and the timestamp 2009-06-17T16:53:05.099653Z.
C10_SchemaDecoding ==
    op = "parse" =>
        LET b == View[1]
            p == SubSeq(View, 3, Len(View))
        IN  /\ (b \in DOMAIN StatedWidth /\ Len(p) = StatedWidth[b]) =>
                  /\ ret.tag = "Ok"
                  /\ ret.val.variant = StatedVariant[b]
                  /\ Encodes(ret.val, p)
            /\ (b \in {11, 12} /\ Ascii(p)) => ret = Ok(Value("String", p))
            /\ origin = S1Records =>
                  /\ b = 5 => ret = Ok(Value("U16", 15675))
                  /\ b = 13 => ret = Ok(Value("I32", 1304747195))
                  /\ b = 65 => ret = Ok(Value("U8", 1))
                  /\ b = 11 => ret = Ok(Value("String", <<69, 79, 78>>))
                  /\ b = 12 => ret = Ok(Value("String",
                         <<71, 101, 111, 100, 101, 116, 105, 99, 32, 87, 71, 83, 56, 52>>))
                  /\ b = 2 => /\ ret.tag = "Ok"
                              /\ DigitsValue(ret.val.v.secs) = 1245257585
                              /\ ret.val.v.nanos = 99653000

C10_Witness ==
    /\ origin = S1Records
    /\ op = "parse"
    /\ View[1] = 13
    /\ ret = Ok(Value("I32", 1304747195))

\* C11: from_byte(b) is Some exactly for the bytes the data set defines and
\* None for every other byte; the tag t it returns has as_byte(t) = b, and
\* from_byte(as_byte(t)) = t for every tag t.  The first data set's from_byte
\* maps the same bytes to the same tags.
C11_ByteTagBijection ==
    /\ (op = "key" /\ reader = "KLVReader") =>
          LET b == View[1]
              k == UASDataset_from_byte(b)
          IN  /\ (b \in StatedBytes) = (k.tag = "Some")
              /\ b \notin StatedBytes => (k = NoneV /\ ret = Err(<<"UndefinedID", b>>))
              /\ b \in StatedBytes =>
                    /\ ret = Ok(k.val)
                    /\ UASDataset_as_u8(k.val) = b
                    /\ \A c \in Byte :
                          UASDataset_from_byte(c) = k => c = b
              /\ src_UASDataset_from_byte(b) = k
    /\ \A t \in UASDataset : UASDataset_from_byte(UASDataset_as_u8(t)) = SomeV(t)
    /\ Cardinality(UASDataset) = Cardinality(StatedBytes)

C11_Witness ==
    /\ reader = "KLVReader"
    /\ op = "key"
    /\ View[1] = 65
    /\ ret = Ok("LSVersionNumber")

\* C12: parse() of a Checksum record (tag 1) accepts both widths: a 1-byte
\* payload decodes to U8 of that byte and a 2-byte payload to U16 of its
\* big-endian value, so that no payload byte is dropped.
C12_ChecksumBothWidths ==
    (op = "parse" /\ View[1] = 1) =>
        LET p == SubSeq(View, 3, Len(View)) IN
        /\ Len(p) = 1 => ret = Ok(Value("U8", p[1]))
        /\ Len(p) = 2 => ret = Ok(Value("U16", p[1] * 256 + p[2]))

\* bytes that occur in no UTF-8 text
NeverUtf8 == {192, 193} \cup (245..255)

\* C13: parse() of a string item (tags 11 and 12) whose payload is not valid
\* UTF-8 returns an Encoding error as a value: it does not panic and does not
\* yield a String.
C13_InvalidUtf8IsAnError ==
    (/\ op = "parse"
     /\ View[1] \in {11, 12}
     /\ \E i \in 3..Len(View) : View[i] \in NeverUtf8) =>
        /\ ret.tag = "Err"
        /\ ret.val[1] = "Encoding"

(***************************************************************************)
(* SpecValue: a Value is written with to_bytes into a writer, its len() is *)
(* taken, and the bytes written are decoded with the decoder of its        *)
(* variant, as test_value_encode_decode does.                              *)
(***************************************************************************)
\* the longest String
MaxStrLen == 3
\* the bytes of the Strings: 'A' and the two bytes of U+00E9
StrBytes == {65, 195, 169}
Strings ==
    {x \in UNION {[1..n -> StrBytes] : n \in 0..MaxStrLen} : Utf8(x)}
    \cup {<<69, 79, 78>>}

U64Samples ==
    {<<0, 0, 0, 0>>, <<0, 0, 0, 1234>>, <<0, 1, 0, 0>>, <<32768, 0, 0, 0>>,
     <<Limb - 1, Limb - 1, Limb - 1, Limb - 1>>}
I64Samples ==
    {<<0, 0, 0, 0>>, <<-1, Limb - 1, Limb - 1, Limb - 1>>, <<-32768, 0, 0, 0>>,
     <<32767, Limb - 1, Limb - 1, Limb - 1>>, <<-1, Limb - 1, Limb - 1, Limb - 127>>}
\* seconds since the epoch: 0, 1, the S1 sample, the last second whose
\* microseconds fit a u64, the next one, and i64::MAX
SecsSamples ==
    {<<0, 0, 0, 0, 0, 0, 0, 0>>, <<0, 0, 0, 0, 0, 0, 0, 1>>,
     <<0, 0, 0, 0, 74, 57, 31, 113>>, <<0, 0, 16, 198, 247, 160, 181, 237>>,
     <<0, 0, 16, 198, 247, 160, 181, 238>>, <<127, 255, 255, 255, 255, 255, 255, 255>>}
NanosSamples == {0, 999, 1000, 5678, 99653000, 551615999, 551616000, 999999999}

Variants ==
    {"U8", "U16", "U32", "U64", "I8", "I16", "I32", "I64", "String", "Timestamp",
     "Duration"}
\* the payloads of the sample Values of a variant
ValueSamples(variant) ==
    CASE variant = "U8" -> {0, 1, 127, 128, 255}
      [] variant = "I8" -> {-128, -127, -1, 0, 127}
      [] variant = "U16" -> {0, 255, 256, 15675, 65535}
      [] variant = "I16" -> {-32768, -127, -1, 0, 32767}
      [] variant = "U32" -> {<<0, 0>>, <<0, 192>>, <<1, 0>>, <<Limb - 1, Limb - 1>>}
      [] variant = "I32" -> {-2147483647 - 1, -192, -1, 0, 1234, 2147483647}
      [] variant = "U64" -> U64Samples
      [] variant = "I64" -> I64Samples
      [] variant = "String" -> Strings
      [] variant = "Timestamp" ->
            {[secs |-> q, nanos |-> n, sign |-> g] :
               q \in SecsSamples, n \in NanosSamples, g \in {1, -1}}
      [] variant = "Duration" ->
            {[secs |-> q, nanos |-> n] : q \in U64Samples, n \in NanosSamples}

\* a Vec and destination slices of 0, 1, 8 and 12 bytes
ValueWriters == {VecWriter} \cup {SliceWriter(WOf(r)) : r \in {0, 1, 8, 12}}

InitValue ==
    /\ ReaderIdle
    /\ gbuf = EmptyBuf
    /\ pc = "value"
    /\ op = "none"
    /\ ret = NoRet
    /\ \E variant \in Variants, w \in ValueWriters :
          \E v \in ValueSamples(variant) :
             src = [kind |-> "value", value |-> Value(variant, v), writer |-> w]

Call_Value_len ==
    /\ pc = "value"
    /\ op # "len"
    /\ op' = "len"
    /\ ret' = Ok(Value_len(src.value))
    /\ UNCHANGED <<gbuf, src, pc, readerVars>>

Call_Value_to_bytes ==
    /\ pc = "value"
    /\ LET r == Value_to_bytes(src.writer, src.value) IN
       /\ gbuf' = r.w.data
       /\ ret' = r.ret
       /\ pc' = CASE r.ret.tag = "Ok" -> "written"
                  [] r.ret.tag = "Err" -> "failed"
                  [] OTHER -> "panicked"
    /\ op' = "to_bytes"
    /\ UNCHANGED <<src, readerVars>>

\* the decoder of the variant is applied to the bytes written
Decode(variant, r) ==
    /\ pc = "written"
    /\ src.value.variant = variant
    /\ op' = "decode"
    /\ ret' = r
    /\ pc' = IF r.tag = "Panic" THEN "panicked" ELSE "decoded"
    /\ UNCHANGED <<gbuf, src, readerVars>>

Written == gbuf.head

Call_Value_from_u8 == Decode("U8", Value_from_u8(Written))
Call_Value_as_u16 == Decode("U16", Value_as_u16(Written))
Call_Value_as_u32 == Decode("U32", Value_as_u32(Written))
Call_Value_as_u64 == Decode("U64", Value_as_u64(Written))
Call_Value_as_i8 == Decode("I8", Value_as_i8(Written))
Call_Value_as_i16 == Decode("I16", Value_as_i16(Written))
Call_Value_as_i32 == Decode("I32", Value_as_i32(Written))
Call_Value_as_i64 == Decode("I64", Value_as_i64(Written))
Call_Value_as_string == Decode("String", Value_as_string(Written))
Call_Value_as_timestamp == Decode("Timestamp", Value_as_timestamp(Written))
Call_Value_as_duration == Decode("Duration", Value_as_duration(Written))

NextValue ==
    \/ Call_Value_len
    \/ Call_Value_to_bytes
    \/ Call_Value_from_u8
    \/ Call_Value_as_u16
    \/ Call_Value_as_u32
    \/ Call_Value_as_u64
    \/ Call_Value_as_i8
    \/ Call_Value_as_i16
    \/ Call_Value_as_i32
    \/ Call_Value_as_i64
    \/ Call_Value_as_string
    \/ Call_Value_as_timestamp
    \/ Call_Value_as_duration

SpecValue == InitValue /\ [][NextValue]_vars

(***************************************************************************)
(* Properties of SpecValue                                                 *)
(***************************************************************************)
\* the encoded width of a Value, as the specification states it
StatedLen(x) ==
    CASE x.variant \in {"U8", "I8"} -> 1
      [] x.variant \in {"U16", "I16"} -> 2
      [] x.variant \in {"U32", "I32"} -> 4
      [] x.variant \in {"U64", "I64", "Timestamp"} -> 8
      [] x.variant = "Duration" -> 12
      [] x.variant = "String" -> Len(x.v)

\* the writer takes the whole Value
Roomy == src.writer.kind = "vec" \/ WLe(WOf(StatedLen(src.value)), src.writer.room)

\* the Value can be written: a Timestamp is an instant at or after the epoch
\* whose microseconds fit the u64 of the wire
Encodable(x) ==
    x.variant = "Timestamp" =>
        /\ x.v.sign = 1
        /\ MulMicros(x.v.secs, 8, x.v.nanos \div 1000, <<>>) # <<>>

uasdms_Value_len(x) ==
    CASE x.variant = "Timestamp" -> 8
      [] x.variant = "U8" -> 1
      [] x.variant = "U16" -> 2
      [] x.variant = "U32" -> 4
      [] x.variant = "I16" -> 2
      [] x.variant = "I32" -> 4
      [] x.variant = "String" -> Len(x.v)

\* uasdms::Value::to_bytes: every variant fills a local array and hands it
\* to one buf.write, which stores what fits
uasdms_Value_to_bytes(w, x) ==
    CASE x.variant = "Timestamp" ->
            IF x.v.sign < 0 THEN [w |-> w, ret |-> Panic]
            ELSE Write_write(w, Bytes(SystemTime_micros(x.v.secs, 8, x.v.nanos \div 1000, <<>>)))
      [] x.variant = "U8" -> Write_write(w, Bytes(<<x.v>>))
      [] x.variant = "U16" -> Write_write(w, Bytes(LimbOctets(x.v)))
      [] x.variant = "U32" -> Write_write(w, Bytes(LimbOctets(x.v[1]) \o LimbOctets(x.v[2])))
      [] x.variant = "I16" -> Write_write(w, Bytes(BE_write_i16(x.v)))
      [] x.variant = "I32" -> Write_write(w, Bytes(BE_write_i32(x.v)))
      [] x.variant = "String" -> Write_write(w, Bytes(x.v))

\* records.iter().fold(0, |size, (_, v)| size + 2 + v.len())
RECURSIVE contents_len(_)
contents_len(records) ==
    IF records = <<>> THEN 0
    ELSE contents_len(SubSeq(records, 1, Len(records) - 1))
         + 2 + uasdms_Value_len(records[Len(records)].value)

encode_len(records) ==
    LET c == contents_len(records) + 16 IN c + LengthOctet_encode_len(WOf(c))

\* the loop of encode: tag and length byte, then the value
RECURSIVE encode_records(_, _)
encode_records(w, records) ==
    IF records = <<>> THEN [w |-> w, ret |-> Ok(<<>>)]
    ELSE LET r == records[1]
             h == Write_write(w, Bytes(<<UASDataset_as_u8(r.key),
                                         uasdms_Value_len(r.value) % 256>>))
             v == uasdms_Value_to_bytes(h.w, r.value)
         IN  IF v.ret.tag = "Panic" THEN v ELSE encode_records(v.w, Tail(records))

\* encode(buf, records): the writer afterwards and the size returned
encode(w, records) ==
    LET k == Write_write(w, Bytes(LS_UNIVERSAL_KEY0601_8_10))
        content_len == contents_len(records)
        l == LengthOctet_length_to_buf(k.w, WOf(content_len))
        c == encode_records(l.w, records)
    IN  IF c.ret.tag = "Panic" THEN c
        ELSE [w |-> c.w, ret |-> Ok(WAdd(WAdd(k.ret.val, l.ret.val), WOf(content_len)))]

(***************************************************************************)
(* SpecFrame: test_encode.  A record list is sized with encode_len, written *)
(* by encode into a zeroed destination, viewed through KLVGlobal, and the  *)
(* content is walked with KLVReader, calling key() and parse() on each     *)
(* record.                                                                 *)
(***************************************************************************)
FrameVariants == {"Timestamp", "U8", "U16", "U32", "I16", "I32", "String"}
FrameValues(variant) ==
    CASE variant = "Timestamp" ->
            {[secs |-> <<0, 0, 0, 0, 74, 57, 31, 113>>, nanos |-> 99653000, sign |-> 1],
             [secs |-> <<0, 0, 0, 0, 0, 0, 0, 1>>, nanos |-> 999, sign |-> 1],
             [secs |-> <<0, 0, 0, 0, 0, 0, 0, 1>>, nanos |-> 0, sign |-> -1]}
      [] variant = "U8" -> {0, 46, 255}
      [] variant = "U16" -> {0, 7263, 15675}
      [] variant = "U32" -> {<<0, 192>>, <<Limb - 1, Limb - 1>>}
      [] variant = "I16" -> {-32768, -1, 338}
      [] variant = "I32" -> {-2147483647 - 1, -192, 1234}
      [] variant = "String" ->
            {<<>>, <<84, 69, 83, 84, 83>>, <<97, 115, 100, 97, 115, 100, 97, 115, 100>>,
             <<195, 169>>}

RecordOf(t, variant, v) == [key |-> t, value |-> Value(variant, v)]

\* the records of test_encode
TestRecords ==
    <<RecordOf("Timestamp", "Timestamp",
               [secs |-> <<0, 0, 0, 0, 74, 57, 31, 113>>, nanos |-> 99653123, sign |-> 1]),
      RecordOf("ImageSourceSensor", "String", <<84, 69, 83, 84, 83>>),
      RecordOf("TargetLocationLatitude", "I32", 1234)>>

\* a String of n bytes 'A'
Text(n) == [i \in 1..n |-> 65]
\* the lengths one length byte can state
TextLens == 0..255
\* lengths of Strings that one length byte cannot state
LongTextLens == {256, 300}

\* the destination of test_encode in uasdms.rs: vec![0; 100]
TestDstLen == 100

\* nothing sized or written yet
FrameSrc(rs) ==
    [kind |-> "encode", records |-> rs, presize |-> 0, dst |-> 0, written |-> 0,
     via |-> "none"]

InitFrame ==
    /\ ReaderIdle
    /\ gbuf = EmptyBuf
    /\ pc = "records"
    /\ op = "none"
    /\ ret = NoRet
    /\ \/ src = FrameSrc(<<>>)
       \/ src = FrameSrc(TestRecords)
       \/ \E n \in TextLens \cup LongTextLens :
            src = FrameSrc(<<RecordOf("ImageSourceSensor", "String", Text(n))>>)
       \/ \E n \in {0, 1, 255} :
            src = FrameSrc(<<RecordOf("ImageCoordinateSensor", "String", Text(255)),
                             RecordOf("ImageSourceSensor", "String", Text(n))>>)
       \/ \E t \in UASDataset, variant \in FrameVariants :
            \E v \in FrameValues(variant) :
               src = FrameSrc(<<RecordOf(t, variant, v)>>)

Call_encode_len ==
    /\ pc = "records"
    /\ op' = "encode_len"
    /\ ret' = Ok(encode_len(src.records))
    /\ src' = [src EXCEPT !.presize = encode_len(src.records)]
    /\ pc' = "sized"
    /\ UNCHANGED <<gbuf, readerVars>>

\* encode(&mut buf, &records) on vec![0; encode_size] or vec![0; 100]
Call_encode ==
    /\ pc = "sized"
    /\ \E d \in {src.presize, TestDstLen} :
         LET r == encode(SliceWriter(WOf(d)), src.records) IN
         /\ gbuf' = BCat(r.w.data, Filled(0, r.w.room))
         /\ ret' = r.ret
         /\ src' = [src EXCEPT !.dst = d, !.written = Len(r.w.data.head)]
         /\ pc' = IF r.ret.tag = "Ok" THEN "buffer" ELSE "panicked"
    /\ op' = "encode"
    /\ UNCHANGED readerVars

\* klvg.key_is(&LS_UNIVERSAL_KEY0601_8_10)
Call_key_is_KEY == Accessor("key_is_KEY", KLVGlobal_key_is(gbuf, LS_UNIVERSAL_KEY0601_8_10))

\* the bytes of a buffer as a sequence
Flat(b) == b.head \o [i \in 1..WSmall(b.tail) |-> b.fill]

\* KLVReader::<UASDataset>::from_bytes(klvg.content())
Call_KLVReader_from_bytes ==
    /\ pc = "view"
    /\ op = "content"
    /\ ret.tag = "Ok"
    /\ buf' = Flat(ret.val)
    /\ reader' = "KLVReader"
    /\ current' = 0
    /\ yielded' = <<>>
    /\ pc' = "iter"
    /\ op' = "from_bytes"
    /\ ret' = NoRet
    /\ UNCHANGED <<gbuf, src, origin, serializer, deserializer, consumer>>

NextFrame ==
    \/ Call_encode_len
    \/ Call_encode
    \/ Call_try_from_bytes
    \/ Call_key_is_KEY
    \/ Call_content
    \/ Call_KLVReader_from_bytes
    \/ Call_KLVReader_next
    \/ Call_KLV_key
    \/ Call_KLV_parse

SpecFrame == InitFrame /\ [][NextFrame]_vars

(***************************************************************************)
(* Properties of SpecFrame                                                 *)
(***************************************************************************)
\* lengthOfLength of the specification
StatedLengthOfLength(n) ==
    IF n <= 127 THEN 1 ELSE IF n <= 255 THEN 2 ELSE IF n <= 65535 THEN 3 ELSE 5

\* the sum of 2 + value.len() over the records
RECURSIVE StatedContentLen(_)
StatedContentLen(records) ==
    IF records = <<>> THEN 0
    ELSE 2 + StatedLen(records[1].value) + StatedContentLen(Tail(records))

\* the number of bytes of the frame of the records
StatedFrameLen(records) ==
    LET c == StatedContentLen(records) IN 16 + StatedLengthOfLength(c) + c

\* C15: encode_len(records) equals the size encode returns and the number of
\* bytes of the frame, 16 + lengthOfLength(contentLen) + contentLen, for every
\* contentLen, 112..127 and 240..255 included.
C15_PresizeAgrees ==
    (/\ src.kind = "encode"
     /\ op = "encode"
     /\ ret.tag = "Ok"
     /\ src.dst >= StatedFrameLen(src.records)) =>
        /\ ret.val = WOf(StatedFrameLen(src.records))
        /\ src.written = StatedFrameLen(src.records)
        /\ src.presize = StatedFrameLen(src.records)

\* C25: encode into a destination with room for fewer bytes than the frame
\* returns an error, and never Ok(n) with n other than the number of bytes
\* stored in the destination.
C25_ExhaustedDestinationFails ==
    (src.kind = "encode" /\ op = "encode" /\ ret.tag # "Panic") =>
        /\ src.dst < StatedFrameLen(src.records) => ret.tag = "Err"
        /\ ret.tag = "Ok" => ret.val = WOf(src.written)

\* encode of a String of 100 bytes into vec![0; 100]: Ok(119), 100 bytes
\* stored
C25_TruncatedFrame ==
    /\ src.kind = "encode"
    /\ op = "encode"
    /\ src.dst = TestDstLen
    /\ StatedFrameLen(src.records) = 119
    /\ ret = Ok(WOf(119))
    /\ src.written = 100

\* encode has stored a whole frame in the destination
WholeFrame ==
    /\ src.kind = "encode"
    /\ op = "encode"
    /\ ret.tag = "Ok"
    /\ src.dst >= StatedFrameLen(src.records)

\* the content length the outer BER length of a frame declares
DeclaredContentLen(f) ==
    IF f[17] < 128 THEN f[17]
    ELSE IF f[17] = 129 THEN f[18]
    ELSE f[18] * 256 + f[19]

\* where encode put record i of the frame: after the key, the outer length
\* and the records before it, each of a tag, a length byte and its payload
RecordAt(f, records, i) ==
    LET P[j \in 1..i] ==
            IF j = 1 THEN 16 + StatedLengthOfLength(StatedContentLen(records))
            ELSE P[j - 1] + 2 + StatedLen(records[j - 1].value)
    IN  P[i]

\* C26: in every frame encode produces, the content length of the outer BER
\* length is the sum over the records of 2 + the record's length byte, and
\* the length byte of each record is the byte length of its payload, a
\* String of 256 or more bytes included.
C26_ContentLenIsSumOfRecords ==
    WholeFrame =>
        LET f == Flat(gbuf)
            n == Len(src.records)
            L == [i \in 1..n |-> f[RecordAt(f, src.records, i) + 2]]
            Sum[i \in 0..n] == IF i = 0 THEN 0 ELSE Sum[i - 1] + 2 + L[i]
        IN  /\ \A i \in 1..n : L[i] = StatedLen(src.records[i].value)
            /\ DeclaredContentLen(f) = Sum[n]

\* the frame of a String of 256 bytes: content length 258, length byte 0
C26_LengthByteWraps ==
    /\ WholeFrame
    /\ Len(src.records) = 1
    /\ StatedLen(src.records[1].value) = 256
    /\ DeclaredContentLen(Flat(gbuf)) = 258
    /\ Flat(gbuf)[21] = 0
    /\ Flat(gbuf)[22] = 65

\* the value of a record is of the variant the schema gives its tag, and a
\* Timestamp is an instant the wire can hold
Conformant(r) ==
    LET b == UASDataset_as_u8(r.key) IN
    /\ r.value.variant =
          (CASE b \in {11, 12} -> "String"
             [] b = 1 -> IF r.value.variant = "U8" THEN "U8" ELSE "U16"
             [] OTHER -> StatedVariant[b])
    /\ Encodable(r.value)

\* the result r of parse() is the value v, a Timestamp to the microsecond
SameValue(r, v) ==
    /\ r.tag = "Ok"
    /\ r.val.variant = v.variant
    /\ IF v.variant = "Timestamp"
       THEN /\ r.val.v.secs = v.v.secs
            /\ r.val.v.nanos = (v.v.nanos \div 1000) * 1000
       ELSE r.val.v = v.v

\* C16: the frame encode writes for a record list passes try_from_bytes, has
\* key_is(LS_UNIVERSAL_KEY0601_8_10) true, and KLVReader over its content()
\* yields the records in order, key() the encoded tag and parse() the encoded
\* value.
C16_FrameRoundTrip ==
    (/\ src.kind = "encode"
     /\ \A i \in 1..Len(src.records) : Conformant(src.records[i])
     /\ src.dst >= StatedFrameLen(src.records)) =>
        /\ op = "encode" => ret.tag = "Ok"
        /\ op = "try_from_bytes" => ret.tag = "Ok"
        /\ op = "key_is_KEY" => ret = Ok(TRUE)
        /\ op = "content" => ret.tag = "Ok"
        /\ op = "next" => ret.tag # "Panic"
        /\ Len(yielded) <= Len(src.records)
        /\ pc = "done" => Len(yielded) = Len(src.records)
        /\ \A i \in 1..Len(yielded) :
              /\ KLV_key(yielded[i]) = Ok(src.records[i].key)
              /\ SameValue(KLV_parse(yielded[i]), src.records[i].value)
        /\ op = "key" => ret = Ok(src.records[Len(yielded)].key)
        /\ op = "parse" => SameValue(ret, src.records[Len(yielded)].value)

(***************************************************************************)
(* se.rs: the serde Serializer.  A struct is written as its 16-byte name,  *)
(* the BER length of the output and the output, which holds one record     *)
(* (tag, BER length, body) per field serialized.  Vec<u8> are sequences.   *)
(***************************************************************************)
\* an Error of crate::error: the variant and what its message says
Error(kind, msg) == Err([kind |-> kind, msg |-> msg])

\* <&str>::parse::<u8>(): an optional '+', then decimal digits up to 255
str_parse_u8(key) ==
    LET body == IF key # <<>> /\ key[1] = 43 THEN Tail(key) ELSE key
        IsDigit(c) == c >= 48 /\ c <= 57
        \* the value of the first i digits, 256 once it has left the u8
        Upto[i \in 0..Len(body)] ==
            IF i = 0 THEN 0
            ELSE IF Upto[i - 1] * 10 + (body[i] - 48) > 255 THEN 256
            ELSE Upto[i - 1] * 10 + (body[i] - 48)
    IN  IF key = <<>> THEN Err("Empty")
        ELSE IF body = <<>> \/ \E i \in 1..Len(body) : ~IsDigit(body[i])
            THEN Err("InvalidDigit")
        ELSE IF Upto[Len(body)] > 255 THEN Err("PosOverflow")
        ELSE Ok(Upto[Len(body)])

\* u8::to_string(): the decimal digits, no leading zero
u8_to_string(v) ==
    IF v < 10 THEN <<48 + v>>
    ELSE IF v < 100 THEN <<48 + (v \div 10), 48 + (v % 10)>>
    ELSE <<48 + (v \div 100), 48 + ((v \div 10) % 10), 48 + (v % 10)>>

\* a value a field holds: its type and the value of that type.  u32 / f32
\* bits are two 16-bit limbs, u64 / i64 / f64 bits four, a char its code
\* point, str / bytes their bytes
Typed(ty, v) == [ty |-> ty, v |-> v]

\* the body serialize_<ty> appends after the length
Serializer_body(x) ==
    CASE x.ty = "bool" -> <<IF x.v THEN 1 ELSE 0>>
      [] x.ty = "u8" -> <<x.v>>
      [] x.ty = "i8" -> <<x.v % 256>>
      [] x.ty = "u16" -> BE_write_u16(WOf(x.v))
      [] x.ty = "i16" -> BE_write_i16(x.v)
      [] x.ty = "u32" -> BE_write_u32(x.v)
      [] x.ty = "i32" -> BE_write_i32(x.v)
      [] x.ty = "f32" -> BE_write_u32(x.v)
      [] x.ty = "u64" -> BE_write_u64(x.v)
      [] x.ty = "i64" -> BE_write_i64(x.v)
      [] x.ty = "f64" -> BE_write_u64(x.v)
      [] x.ty = "char" -> BE_write_u32(WOf(x.v))
      [] x.ty = "str" -> x.v
      [] x.ty = "bytes" -> x.v
      [] x.ty = "unit" -> <<>>

\* serialize_bool .. serialize_bytes, serialize_unit: length_to_buf into the
\* output, then the body
Serializer_serialize(s, x) ==
    LET body == Serializer_body(x) IN
    [s |-> [s EXCEPT !.output = @ \o LengthOctet_octets(WOf(Len(body))) \o body],
     ret |-> Ok(<<>>)]

\* mutant: None writes nothing after the tag
Serializer_serialize_none_Empty(s) == [s |-> s, ret |-> Ok(<<>>)]

\* serialize_none is serialize_unit
Serializer_serialize_none(s) == Serializer_serialize(s, Typed("unit", <<>>))

\* serialize_some(value) is value.serialize(self)
Serializer_serialize_some(s, x) == Serializer_serialize(s, x)

\* <T as Serialize>::serialize for the value of a field: Some(x) / None of
\* an Option, x itself otherwise
Serialize_serialize(s, f) ==
    IF ~f.optional THEN Serializer_serialize(s, Typed(f.ty, f.value.val))
    ELSE IF f.value.tag = "Some" THEN Serializer_serialize_some(s, Typed(f.ty, f.value.val))
    ELSE Serializer_serialize_none(s)

\* mutant: a name of any length is taken as the universal key
Serializer_serialize_struct_AnyName(s, name) ==
    [s |-> [s EXCEPT !.universal_key = @ \o name], ret |-> Ok(<<>>)]

\* serialize_struct(name, len)
Serializer_serialize_struct(s, name) ==
    IF Len(name) # 16 THEN [s |-> s, ret |-> Error("Key", "Universal Key got")]
    ELSE [s |-> [s EXCEPT !.universal_key = @ \o name], ret |-> Ok(<<>>)]

\* mutant: a key already used is written again
SerializeStruct_serialize_field_NoKeys(s, f) ==
    LET k == str_parse_u8(f.key) IN
    IF k.tag = "Err" THEN [s |-> s, ret |-> Error("Key", "failed t kparse key str to u8")]
    ELSE Serialize_serialize([s EXCEPT !.keys = @ \cup {k.val},
                                       !.output = Append(@, k.val)], f)

\* SerializeStruct::serialize_field(key, value)
SerializeStruct_serialize_field(s, f) ==
    LET k == str_parse_u8(f.key) IN
    IF k.tag = "Err" THEN [s |-> s, ret |-> Error("Key", "failed t kparse key str to u8")]
    ELSE IF k.val \in s.keys THEN [s |-> s, ret |-> Error("Key", "already use field")]
    ELSE Serialize_serialize([s EXCEPT !.keys = @ \cup {k.val},
                                       !.output = Append(@, k.val)], f)

\* mutant: the output is put before its length
Serializer_concat_LengthLast(s) ==
    s.universal_key \o s.output \o LengthOctet_octets(WOf(Len(s.output)))

\* Serializer::concat
Serializer_concat(s) ==
    s.universal_key \o LengthOctet_octets(WOf(Len(s.output))) \o s.output

\* #[serde(skip_serializing_if = "Option::is_none")] on a field that is None
Skipped(f) == f.skip /\ f.value.tag = "None"

(***************************************************************************)
(* de.rs: the serde Deserializer over input, position counted from 0.      *)
(* Each step gives the position afterwards and the result.                 *)
(***************************************************************************)
\* crate::parse_length(&input[p..]): the octets of the length and the
\* content length; long forms of 1, 2 and 4 octets are supported
parse_length(input, p) ==
    LET n == Len(input)
        l == LengthOctet_from_u8(input[p + 1])
        k == IF l.kind = "Long" THEN l.x ELSE 0
        \* the k octets after the first, as two limbs
        v == [i \in 1..4 |-> IF i > 4 - k THEN input[p + 1 + i - (4 - k)] ELSE 0]
    IN  IF p >= n THEN Err("LessLength")
        ELSE IF l.kind = "Short"
            THEN Ok([length_len |-> 1, content_len |-> WOf(l.x)])
        ELSE IF k \notin {1, 2, 4} THEN Err("UnsupportedLength")
        ELSE IF p + k >= n THEN Err("LessLength")
        ELSE Ok([length_len |-> 1 + k,
                 content_len |-> <<v[1] * 256 + v[2], v[3] * 256 + v[4]>>])

\* std::char::from_u32 of a u32 in two limbs: not a surrogate, at most 0x10FFFF
char_from_u32(v) ==
    IF v[1] > 16 \/ (v[1] = 0 /\ v[2] >= 55296 /\ v[2] <= 57343) THEN NoneV
    ELSE SomeV(v[1] * Limb + v[2])

\* the length octet deserialize_<ty> expects for a type of fixed width
ExpectedLength(ty) ==
    CASE ty \in {"bool", "u8", "i8"} -> 1
      [] ty \in {"u16", "i16"} -> 2
      [] ty \in {"u32", "i32", "f32"} -> 4
      [] ty \in {"u64", "i64", "f64"} -> 8

\* the value deserialize_<ty> reads from the octets b after the length
BigEndian_read(ty, b) ==
    CASE ty = "bool" -> b[1] # 0
      [] ty = "u8" -> b[1]
      [] ty = "i8" -> IF b[1] >= 128 THEN b[1] - 256 ELSE b[1]
      [] ty = "u16" -> b[1] * 256 + b[2]
      [] ty = "i16" -> IF b[1] >= 128 THEN b[1] * 256 + b[2] - Limb ELSE b[1] * 256 + b[2]
      [] ty \in {"u32", "f32"} -> <<b[1] * 256 + b[2], b[3] * 256 + b[4]>>
      [] ty = "i32" ->
            (IF b[1] >= 128 THEN b[1] * 256 + b[2] - Limb ELSE b[1] * 256 + b[2]) * Limb
               + b[3] * 256 + b[4]
      [] ty \in {"u64", "f64"} -> BE_read_u64(b)
      [] ty = "i64" -> Value_as_i64(b).val.v

\* deserialize_str at position p
Deserializer_deserialize_str(input, p) ==
    LET l == parse_length(input, p)
        pos == p + l.val.length_len
        end == WAdd(WOf(pos), l.val.content_len)
        s == SubSeq(input, pos + 1, WSmall(end))
    IN  IF l.tag = "Err" THEN [pos |-> p, ret |-> Error("UnsupportedLength", l.val)]
        ELSE IF WLt(WOf(Len(input)), end) THEN [pos |-> p, ret |-> Panic]
        ELSE IF Utf8(s) THEN [pos |-> WSmall(end), ret |-> Ok(s)]
        ELSE [pos |-> WSmall(end), ret |-> Error("ExpectedString", "")]

\* deserialize_char at position p
Deserializer_deserialize_char(input, p) ==
    LET c == char_from_u32(BigEndian_read("u32", SubSeq(input, p + 2, p + 5))) IN
    IF p + 5 > Len(input) THEN [pos |-> p, ret |-> Panic]
    ELSE IF c.tag = "Some" THEN [pos |-> p + 1 + input[p + 1], ret |-> Ok(c.val)]
    ELSE [pos |-> p, ret |-> Error("Message", "unexpected char")]

\* deserialize_<ty> at position p
Deserializer_deserialize(input, p, ty) ==
    CASE ty = "str" -> Deserializer_deserialize_str(input, p)
      [] ty = "char" -> Deserializer_deserialize_char(input, p)
      \* deserialize_bytes, deserialize_byte_buf, deserialize_unit: todo!()
      [] ty \in {"bytes", "unit"} -> [pos |-> p, ret |-> Panic]
      \* the length octet must state the width, and the octets are then read
      [] OTHER ->
            IF p >= Len(input) THEN [pos |-> p, ret |-> Panic]
            ELSE IF input[p + 1] # ExpectedLength(ty)
                THEN [pos |-> p, ret |-> Error("TypeLength", "expect")]
            ELSE IF p + 1 + ExpectedLength(ty) > Len(input) THEN [pos |-> p, ret |-> Panic]
            ELSE [pos |-> p + 1 + ExpectedLength(ty),
                  ret |-> Ok(BigEndian_read(ty,
                                SubSeq(input, p + 2, p + 1 + ExpectedLength(ty))))]

\* the visitor takes the value read: visit_<ty>, or visit_some around it
Visited_some(r) ==
    IF r.ret.tag = "Ok" THEN [pos |-> r.pos, ret |-> Ok(SomeV(r.ret.val))] ELSE r

\* deserialize_option: a zero octet is None, anything else is the value
Deserializer_deserialize_option(input, p, ty) ==
    IF p >= Len(input) THEN [pos |-> p, ret |-> Panic]
    ELSE IF input[p + 1] = 0 THEN [pos |-> p + 1, ret |-> Ok(NoneV)]
    ELSE Visited_some(Deserializer_deserialize(input, p, ty))

\* the field deserialize_identifier names: the first whose rename is the
\* decimal string of the tag, 0 when there is none
FieldOf(fields, tag) ==
    LET hits == {i \in 1..Len(fields) : fields[i].key = u8_to_string(tag)} IN
    IF hits = {} THEN 0 ELSE CHOOSE i \in hits : \A j \in hits : i <= j

\* mutant: the name is not compared with the key
Deserializer_deserialize_struct_AnyKey(d, name, fields) ==
    LET l == parse_length(d.input, 16)
        p == 16 + l.val.length_len
    IN  IF Len(d.input) < 16 THEN [d |-> d, ret |-> Panic]
        ELSE IF l.tag = "Err" THEN [d |-> d, ret |-> Error("UnsupportedLength", l.val)]
        ELSE [d |-> [d EXCEPT !.position = p,
                              !.len = WAdd(WOf(p), l.val.content_len),
                              !.got = [i \in 1..Len(fields) |-> <<>>]],
              ret |-> Ok(<<>>)]

\* deserialize_struct(name, fields, visitor) up to visit_map
Deserializer_deserialize_struct(d, name, fields) ==
    LET l == parse_length(d.input, 16)
        p == 16 + l.val.length_len
    IN  IF Len(d.input) < 16 THEN [d |-> d, ret |-> Panic]
        ELSE IF l.tag = "Err" THEN [d |-> d, ret |-> Error("UnsupportedLength", l.val)]
        ELSE IF name # SubSeq(d.input, 1, 16)
            THEN [d |-> d, ret |-> Error("Key", "Universal key is unmatched")]
        ELSE [d |-> [d EXCEPT !.position = p,
                              !.len = WAdd(WOf(p), l.val.content_len),
                              !.got = [i \in 1..Len(fields) |-> <<>>]],
              ret |-> Ok(<<>>)]

\* one turn of the derived visit_map: next_key_seed (deserialize_identifier)
\* and next_value_seed for the field named, while position < len
KLVVisitor_next_entry(d, fields) ==
    LET q == d.position + 1
        i == FieldOf(fields, d.input[q])
        r == IF fields[i].optional
             THEN Deserializer_deserialize_option(d.input, q, fields[i].ty)
             ELSE Visited_some(Deserializer_deserialize(d.input, q, fields[i].ty))
    IN  IF d.position >= Len(d.input) THEN [d |-> d, ret |-> Panic]
        ELSE IF i # 0 /\ Len(d.got[i]) > 0
            THEN [d |-> d, ret |-> Error("Message", "duplicate field")]
        ELSE IF WLe(d.len, WOf(q)) THEN [d |-> d, ret |-> Error("ExpectedMapEnd", "")]
        \* IgnoredAny: deserialize_ignored_any is todo!()
        ELSE IF i = 0 THEN [d |-> d, ret |-> Panic]
        ELSE IF r.ret.tag # "Ok" THEN [d |-> [d EXCEPT !.position = r.pos], ret |-> r.ret]
        ELSE [d |-> [d EXCEPT !.position = r.pos, !.got[i] = <<r.ret.val>>],
              ret |-> Ok(<<>>)]

\* mutant: from_bytes returns what T::deserialize gave
from_bytes_end_AnyEnd(d, fields) ==
    IF \E i \in 1..Len(fields) : Len(d.got[i]) = 0 /\ ~fields[i].optional
    THEN Error("Message", "missing field")
    ELSE Ok([i \in 1..Len(fields) |-> IF Len(d.got[i]) = 0 THEN NoneV ELSE d.got[i][1]])

\* next_key_seed gives None: the fields not seen are None or missing, and
\* from_bytes wants the whole input read
from_bytes_end(d, fields) ==
    IF \E i \in 1..Len(fields) : Len(d.got[i]) = 0 /\ ~fields[i].optional
    THEN Error("Message", "missing field")
    ELSE IF Len(d.input) # d.position THEN Error("TrailingCharacters", "")
    ELSE Ok([i \in 1..Len(fields) |-> IF Len(d.got[i]) = 0 THEN NoneV ELSE d.got[i][1]])

(***************************************************************************)
(* SpecSerde: to_bytes(&x) for a struct x with #[derive(Serialize)], one   *)
(* step per call the derived impl makes on the Serializer, then            *)
(* from_bytes::<T>(&s) for the type T of x.                                *)
(***************************************************************************)
\* the fields of the aggregates of one run, at most
MaxFields == 2

\* a field of the struct: #[serde(rename = key)], its type, whether it is an
\* Option, whether it has skip_serializing_if = "Option::is_none", its value
Field(key, ty, optional, skip, value) ==
    [key |-> key, ty |-> ty, optional |-> optional, skip |-> skip, value |-> value]
Required(n, ty, v) == Field(u8_to_string(n), ty, FALSE, FALSE, SomeV(v))
Opt(n, ty, skip, value) == Field(u8_to_string(n), ty, TRUE, skip, value)

\* #[serde(rename = "TESTDATA00000000")] and the names of the tests of se.rs
TESTDATA00000000 == <<84, 69, 83, 84, 68, 65, 84, 65, 48, 48, 48, 48, 48, 48, 48, 48>>
TestNoUniversalKey ==
    <<84, 101, 115, 116, 78, 111, 85, 110, 105, 118, 101, 114, 115, 97, 108, 75, 101, 121>>
NonAsciiName == <<6, 14, 43, 52, 2, 11, 1, 1, 14, 1, 14, 1, 1, 1, 0, 0>>
Names ==
    {TESTDATA00000000, NonAsciiName, TestNoUniversalKey, <<>>,
     SubSeq(TESTDATA00000000, 1, 15)}

\* test_serialize_symmetry_numbers
S3Fields ==
    <<Required(128, "bool", TRUE), Required(10, "u8", 8), Required(11, "u16", 16),
      Required(12, "u32", <<0, 32>>), Required(13, "u64", <<0, 0, 0, 64>>),
      Required(15, "i8", -8), Required(16, "i16", -16), Required(17, "i32", -32),
      Required(18, "i64", <<-1, 65535, 65535, 65472>>),
      Required(20, "f32", <<15820, 52429>>),
      Required(21, "f64", <<49246, 56524, 52428, 52429>>)>>

\* test_serialize_optional_string
S4Fields ==
    <<Required(30, "str", <<116, 104, 105, 115, 32, 105, 115, 32, 83, 116, 114, 105, 110, 103>>),
      Opt(31, "str", FALSE, SomeV(<<116, 104, 105, 115, 32, 105, 115, 32, 83, 111, 109, 101>>)),
      Opt(32, "str", FALSE, NoneV),
      Opt(120, "str", TRUE, NoneV),
      Opt(121, "str", TRUE, SomeV(<<110, 111, 110, 101, 32, 115, 107, 105, 112>>))>>

\* test_serialize_asymmetry: TestLarge, and the TestShort it is read into
TestLargeFields ==
    <<Required(30, "u16", 123), Opt(31, "u16", FALSE, SomeV(345)),
      Opt(32, "u16", FALSE, NoneV), Opt(120, "u16", TRUE, NoneV),
      Opt(121, "u16", TRUE, SomeV(678))>>
TestShortFields == <<Required(30, "u16", 123)>>

\* test_serialize_error_by_key: the name of TestTargetOtherUniversalKey
TESTDATA00000001 == <<84, 69, 83, 84, 68, 65, 84, 65, 48, 48, 48, 48, 48, 48, 48, 49>>

\* renames as the tests of test_serialize_error_by_key write them ("-1",
\* "bbb"), and others around the range of a u8 ("256", "", "+5", "010")
OddKeys == <<<<45, 49>>, <<98, 98, 98>>, <<50, 53, 54>>, <<>>, <<43, 53>>, <<48, 49, 48>>>>

\* the fields a run draws from
FieldSamples ==
    S3Fields
    \o <<Required(128, "bool", FALSE), Required(10, "u8", 255),
         Required(10, "bool", TRUE), Required(0, "bool", TRUE),
         Required(255, "bool", TRUE),
         Required(22, "char", 10), Required(22, "char", 65536),
         Required(30, "str", <<>>), Required(30, "str", <<69, 79, 78>>),
         Required(30, "str", Text(127)), Required(30, "str", Text(128)),
         Required(60, "bytes", <<255, 128, 64, 32>>), Required(71, "unit", <<>>)>>
    \o [i \in 1..Len(OddKeys) |-> Field(OddKeys[i], "bool", FALSE, FALSE, SomeV(TRUE))]
    \o SubSeq(S4Fields, 2, 5)
    \o <<Opt(31, "str", FALSE, SomeV(<<>>)), Opt(121, "str", TRUE, SomeV(<<>>)),
         Opt(31, "str", FALSE, SomeV(Text(128))),
         Opt(11, "u16", FALSE, SomeV(0)), Opt(11, "u16", TRUE, NoneV),
         Opt(71, "unit", FALSE, SomeV(<<>>)),
         Opt(60, "bytes", FALSE, SomeV(<<0, 1>>)),
         Field(<<98, 98, 98>>, "bool", TRUE, TRUE, NoneV),
         Required(120, "bool", TRUE), Opt(10, "u8", TRUE, NoneV)>>

\* the struct to serialize, and how many of its fields the derived impl has
\* gone through
Aggregate(name, fields) ==
    [kind |-> "aggregate", name |-> name, fields |-> fields, visited |-> 0]

InitSerde ==
    /\ buf = <<>>
    /\ origin = <<>>
    /\ reader = "none"
    /\ current = 0
    /\ yielded = <<>>
    /\ gbuf = EmptyBuf
    /\ pc = "start"
    /\ op = "none"
    /\ ret = NoRet
    /\ consumer = PtsDumpElementaryStreamConsumer_construct
    \* to_bytes: Serializer { universal_key: vec![], output: vec![], keys: BTreeSet::new() }
    /\ serializer = Serializer_default
    /\ deserializer = Deserializer_from_bytes(<<>>)
    /\ \/ \E t \in 1..3 :
            src = Aggregate(TESTDATA00000000, <<S3Fields, S4Fields, TestLargeFields>>[t])
       \/ \E name \in Names, n \in 0..MaxFields :
            /\ name = TESTDATA00000000 \/ n <= 1
            \* the fields are drawn in the order of FieldSamples
            /\ \E pick \in [1..n -> 1..Len(FieldSamples)] :
                 /\ \A i, j \in 1..n : i < j => pick[i] < pick[j]
                 /\ src = Aggregate(name, [i \in 1..n |-> FieldSamples[pick[i]]])

\* the field the derived impl is at
NextField == src.fields[src.visited + 1]

\* a call on the Serializer returned r; an Err is what to_bytes returns
Serialized(name, r) ==
    /\ op' = name
    /\ serializer' = r.s
    /\ ret' = r.ret
    /\ pc' = IF r.ret.tag = "Ok" THEN "fields" ELSE "failed"
    /\ UNCHANGED <<gbuf, buf, origin, reader, current, yielded, deserializer, consumer>>

\* serializer.serialize_struct(name, len)
Call_serialize_struct ==
    /\ pc = "start"
    /\ src.kind = "aggregate"
    /\ Serialized("serialize_struct", Serializer_serialize_struct(serializer, src.name))
    /\ UNCHANGED src

\* SerializeStruct::serialize_field(key, &self.field)
Call_serialize_field ==
    /\ pc = "fields"
    /\ src.visited < Len(src.fields)
    /\ ~Skipped(NextField)
    /\ Serialized("serialize_field", SerializeStruct_serialize_field(serializer, NextField))
    /\ src' = [src EXCEPT !.visited = @ + 1]

\* SerializeStruct::skip_field(key), which does nothing
Call_skip_field ==
    /\ pc = "fields"
    /\ src.visited < Len(src.fields)
    /\ Skipped(NextField)
    /\ Serialized("skip_field", [s |-> serializer, ret |-> Ok(<<>>)])
    /\ src' = [src EXCEPT !.visited = @ + 1]

\* SerializeStruct::end(), then to_bytes returns Ok(serializer.concat())
Return_to_bytes ==
    /\ pc = "fields"
    /\ src.visited = Len(src.fields)
    /\ op' = "to_bytes"
    /\ gbuf' = Bytes(Serializer_concat(serializer))
    /\ ret' = Ok(Serializer_concat(serializer))
    /\ pc' = "encoded"
    /\ UNCHANGED <<src, readerVars>>

\* from_bytes::<T>(&s) for the type T of the struct serialized has returned r
Returned(r) ==
    /\ op' = "from_bytes"
    /\ ret' = r
    /\ pc' = IF r.tag = "Panic" THEN "panicked" ELSE "decoded"

\* a call on the Deserializer returned r; an Err is what from_bytes returns
Deserialized(name, r) ==
    /\ deserializer' = r.d
    /\ IF r.ret.tag = "Ok" THEN op' = name /\ ret' = r.ret /\ pc' = "map"
       ELSE Returned(r.ret)
    /\ UNCHANGED <<gbuf, src, buf, origin, reader, current, yielded, serializer, consumer>>

\* a field list without its i-th field
Without(fields, i) == SubSeq(fields, 1, i - 1) \o SubSeq(fields, i + 1, Len(fields))

\* fields a wider type declares beyond those of the struct serialized
ExtraFields == <<Opt(200, "u16", FALSE, NoneV), Required(201, "u16", 0)>>

\* the types T that from_bytes::<T> is called for on the bytes of x: the type
\* of x, a type of another name (TestTargetOtherUniversalKey), narrower types
\* (TestShort) and wider ones
Targets(x) ==
    LET T == [name |-> x.name, fields |-> x.fields] IN
    <<T, [T EXCEPT !.name = TESTDATA00000001]>>
    \o [i \in 1..Len(x.fields) |-> [T EXCEPT !.fields = Without(x.fields, i)]]
    \o (IF Len(x.fields) > 2 THEN <<[T EXCEPT !.fields = SubSeq(x.fields, 1, 1)]>>
        ELSE <<>>)
    \o [i \in 1..Len(ExtraFields) |-> [T EXCEPT !.fields = x.fields \o <<ExtraFields[i]>>]]

\* prefixes of up to MaxCut bytes are taken of an output
MaxCut == 28

\* the slices from_bytes is called on besides the output of to_bytes: its
\* prefixes, the output and one more byte, and the output with another
\* length octet after the name
Slices(out) ==
    {SubSeq(out, 1, k) : k \in {k \in 0..(Len(out) - 1) : k <= MaxCut \/ k = Len(out) - 1}}
    \cup {out \o <<0>>}
    \cup {[out EXCEPT ![17] = b] :
            b \in {b \in {0, out[17] - 1, out[17] + 1, 128, 131, 255} : b \in Byte /\ Len(out) > 16}}

\* from_bytes::<T>(&s): Deserializer::from_bytes(s), then T::deserialize
\* calls deserialize_struct
Call_deserialize_struct ==
    /\ pc = "encoded"
    /\ \E i \in 1..Len(Targets(src)) :
         \E s \in {gbuf.head}
                    \cup (IF i <= 2 /\ (Len(src.fields) < MaxFields \/ Len(src.fields) > 4)
                          THEN Slices(gbuf.head) ELSE {}) :
            Deserialized("deserialize_struct",
               Deserializer_deserialize_struct(
                  [Deserializer_from_bytes(s) EXCEPT !.target = Targets(src)[i]],
                  Targets(src)[i].name, Targets(src)[i].fields))

\* the derived visit_map reads one key and its value
Call_next_entry ==
    /\ pc = "map"
    /\ WLt(WOf(deserializer.position), deserializer.len)
    /\ Deserialized("next_entry",
          KLVVisitor_next_entry(deserializer, deserializer.target.fields))

\* next_key_seed gives None, visit_map and from_bytes return
Return_from_bytes ==
    /\ pc = "map"
    /\ WLe(deserializer.len, WOf(deserializer.position))
    /\ Returned(from_bytes_end(deserializer, deserializer.target.fields))
    /\ UNCHANGED <<gbuf, src, readerVars>>

NextSerde ==
    \/ Call_serialize_struct
    \/ Call_serialize_field
    \/ Call_skip_field
    \/ Return_to_bytes
    \/ Call_deserialize_struct
    \/ Call_next_entry
    \/ Return_from_bytes

SpecSerde == InitSerde /\ [][NextSerde]_vars

(***************************************************************************)
(* Properties of SpecSerde                                                 *)
(***************************************************************************)
\* the rename names the u8 n: decimal digits of n, after an optional '+' and
\* leading zeros
NamesU8(key, n) ==
    LET d == IF key # <<>> /\ key[1] = 43 THEN Tail(key) ELSE key IN
    /\ d # <<>>
    /\ \E z \in 0..(Len(d) - 1) :
          /\ \A i \in 1..z : d[i] = 48
          /\ SubSeq(d, z + 1, Len(d)) = u8_to_string(n)

\* the tag each rename of the model declares, -1 when it declares none
DeclaredTags ==
    [key \in {FieldSamples[i].key : i \in 1..Len(FieldSamples)} |->
        IF \E n \in Byte : NamesU8(key, n) THEN CHOOSE n \in Byte : NamesU8(key, n)
        ELSE -1]
TagOf(key) == DeclaredTags[key]

\* the field the last serialize_field / skip_field was called for
Visited == src.fields[src.visited]

\* to_bytes has returned bytes
Encoded == pc \in {"encoded", "map", "decoded", "panicked"}

\* to_bytes has returned Error::Key and no bytes
FailedWithKey == ret.tag = "Err" /\ ret.val.kind = "Key" /\ gbuf = EmptyBuf

\* C17 as stated: to_bytes fails with Error::Key, returning no bytes, when the
\* declared name is not exactly 16 bytes or the rename of any field does not
\* parse as a u8.
C17_InvalidKey ==
    (/\ src.kind = "aggregate"
     /\ \/ Len(src.name) # 16
        \/ \E i \in 1..Len(src.fields) : TagOf(src.fields[i].key) = -1) =>
        /\ ~Encoded
        /\ pc = "failed" => FailedWithKey

\* C17, amended: to_bytes fails with Error::Key, returning no bytes, when the
\* declared name is not exactly 16 bytes or the rename of any field that is
\* serialized (not skipped as None) does not parse as a u8.
C17_InvalidKeyOfSerializedField ==
    (/\ src.kind = "aggregate"
     /\ \/ Len(src.name) # 16
        \/ \E i \in 1..Len(src.fields) :
              ~Skipped(src.fields[i]) /\ TagOf(src.fields[i].key) = -1) =>
        /\ ~Encoded
        /\ pc = "failed" => FailedWithKey

C17_Witness ==
    /\ src.kind = "aggregate"
    /\ pc = "failed"
    /\ op = "serialize_field"
    /\ Len(src.name) = 16
    /\ src.visited = 2
    /\ TagOf(Visited.key) = -1
    /\ FailedWithKey

\* the tags of the records of an output: tag, BER length, body
RECURSIVE OutputTags(_, _)
OutputTags(out, p) ==
    IF p >= Len(out) THEN <<>>
    ELSE LET l == parse_length(out, p + 1) IN
         <<out[p + 1]>>
            \o OutputTags(out, p + 1 + l.val.length_len + WSmall(l.val.content_len))

\* fields i < j declare the same tag
SameTag(i, j) ==
    /\ i < j
    /\ TagOf(src.fields[i].key) # -1
    /\ TagOf(src.fields[i].key) = TagOf(src.fields[j].key)

\* to_bytes has failed on field j as a duplicate
DuplicateAt(j) ==
    /\ FailedWithKey
    /\ ret.val.msg = "already use field"
    /\ op = "serialize_field"
    /\ src.visited = j

\* the tags of the output are pairwise distinct and are the keys seen
DistinctTags ==
    LET tags == OutputTags(serializer.output, 0) IN
    /\ \A i, j \in 1..Len(tags) : tags[i] = tags[j] => i = j
    /\ serializer.keys = {tags[i] : i \in 1..Len(tags)}

\* an aggregate nothing but a duplicate can fail
WellKeyed ==
    /\ src.kind = "aggregate"
    /\ Len(src.name) = 16
    /\ \A i \in 1..Len(src.fields) : TagOf(src.fields[i].key) # -1

\* C18 as stated: an aggregate in which two fields declare the same numeric
\* rename fails as a duplicate at the second such field; the tags of every
\* output are pairwise distinct and are the serializer's seen tags.
C18_DuplicateTag ==
    WellKeyed =>
        /\ (\E i, j \in 1..Len(src.fields) : SameTag(i, j)) =>
              /\ ~Encoded
              /\ pc = "failed" =>
                    \E j \in 1..Len(src.fields) :
                       /\ DuplicateAt(j)
                       /\ \E i \in 1..j : SameTag(i, j)
        /\ pc \in {"fields", "encoded"} => DistinctTags

\* C18, amended: an aggregate in which two fields that are serialized (not
\* skipped as None) declare the same numeric rename fails as a duplicate at
\* the second such field; the tags of every output are pairwise distinct and
\* are the serializer's seen tags.
C18_DuplicateTagOfSerializedFields ==
    WellKeyed =>
        /\ (\E i, j \in 1..Len(src.fields) :
              SameTag(i, j) /\ ~Skipped(src.fields[i]) /\ ~Skipped(src.fields[j])) =>
              /\ ~Encoded
              /\ pc = "failed" =>
                    \E j \in 1..Len(src.fields) :
                       /\ DuplicateAt(j)
                       /\ \E i \in 1..j :
                             SameTag(i, j) /\ ~Skipped(src.fields[i])
                                           /\ ~Skipped(src.fields[j])
        /\ pc \in {"fields", "encoded"} => DistinctTags

C18_Witness ==
    /\ WellKeyed
    /\ Len(src.fields) = 2
    /\ SameTag(1, 2)
    /\ DuplicateAt(2)
    /\ serializer.keys = {TagOf(src.fields[1].key)}

\* the struct serialized has the fields fs
FieldsAre(fs) ==
    /\ Len(src.fields) = Len(fs)
    /\ \A i \in 1..Len(fs) :
          /\ src.fields[i].ty = fs[i].ty
          /\ src.fields[i].value.tag = fs[i].value.tag
          /\ src.fields[i] = fs[i]

\* what a required field of that type and value writes after its tag
EncodingOf(x) == Serializer_serialize(Serializer_default, x).s.output

\* what the claim has an optional field write
StatedOptional(f) ==
    IF f.value.tag = "None" THEN (IF f.skip THEN <<>> ELSE <<TagOf(f.key), 0>>)
    ELSE <<TagOf(f.key)>> \o EncodingOf(Typed(f.ty, f.value.val))

\* needle occurs in haystack
Contains(haystack, needle) ==
    \E i \in 0..(Len(haystack) - Len(needle)) :
        SubSeq(haystack, i + 1, i + Len(needle)) = needle

\* C19: an optional field that is None and skipped writes nothing; one that
\* is None and not skipped writes its tag and the length octet 0; one that is
\* Some(x) writes its tag and the encoding of x, skipped or not.  The output
\* of S4 holds 32 00 and 121 09 and no tag 120.
C19_OptionalFieldEncoding ==
    /\ [][(/\ src.kind = "aggregate"
           /\ op' \in {"serialize_field", "skip_field"}
           /\ src.fields[src.visited + 1].optional
           /\ ret'.tag = "Ok") =>
              serializer'.output
                 = serializer.output \o StatedOptional(src.fields[src.visited + 1])]_vars
    /\ []((src.kind = "aggregate" /\ FieldsAre(S4Fields) /\ Encoded) =>
            /\ Contains(gbuf.head, <<32, 0>>)
            /\ Contains(gbuf.head, <<121, 9>>)
            /\ ~Contains(gbuf.head, <<120, 0>>)
            /\ \A i \in 1..Len(OutputTags(serializer.output, 0)) :
                  OutputTags(serializer.output, 0)[i] # 120)

C19_Witness ==
    /\ src.kind = "aggregate"
    /\ FieldsAre(S4Fields)
    /\ op = "serialize_field"
    /\ src.visited = 3
    /\ ret.tag = "Ok"
    /\ Contains(serializer.output, <<32, 0>>)

\* the aggregates the symmetry is stated for: a 16-byte name and renames
\* that are distinct u8
Symmetric ==
    /\ WellKeyed
    /\ \A i, j \in 1..Len(src.fields) : ~SameTag(i, j)

\* from_bytes::<T> was called on the output of to_bytes(&x) for the T of x
OfItsType ==
    /\ deserializer.input = gbuf.head
    /\ deserializer.target = [name |-> src.name, fields |-> src.fields]

\* C20: for an aggregate with a 16-byte name and distinct u8 renames,
\* from_bytes(to_bytes(x)) succeeds and equals x.
C20_ReflectiveSymmetry ==
    (Symmetric /\ op = "from_bytes" /\ OfItsType) =>
        /\ ret.tag = "Ok"
        /\ Len(ret.val) = Len(src.fields)
        /\ \A i \in 1..Len(src.fields) :
              /\ ret.val[i].tag = src.fields[i].value.tag
              /\ ret.val[i].val = src.fields[i].value.val

\* from_bytes::<T> has returned for a T whose name is not the first 16 bytes
\* of its input
OtherKey ==
    /\ op = "from_bytes"
    /\ Len(deserializer.input) >= 16
    /\ deserializer.target.name # SubSeq(deserializer.input, 1, 16)

\* from_bytes has returned the Error of that kind
Failed(kind) == ret.tag = "Err" /\ ret.val.kind = kind

\* no field was decoded: the cursor is where from_bytes put it and the
\* visitor has no slot
NoFieldDecoded == deserializer.position = 0 /\ deserializer.got = <<>>

\* the octets of input after the first p are a BER length of 1, 2, 3 or 5
\* octets, all inside the input
StatedBER(input, p) ==
    /\ Len(input) > p
    /\ \/ input[p + 1] < 128
       \/ \E k \in {1, 2, 4} : input[p + 1] = 128 + k /\ Len(input) > p + k

SourceOf(i) ==
    CHOOSE j \in 1..Len(src.fields) :
        src.fields[j].key = deserializer.target.fields[i].key

\* from_bytes::<B> has returned for the bytes of to_bytes(&a), B having the
\* name of A and some of its fields, not all
Narrower ==
    /\ op = "from_bytes"
    /\ Symmetric
    /\ deserializer.input = gbuf.head
    /\ deserializer.target.name = src.name
    /\ Len(deserializer.target.fields) < Len(src.fields)
    /\ \A i \in 1..Len(deserializer.target.fields) :
          \E j \in 1..Len(src.fields) :
             src.fields[j].key = deserializer.target.fields[i].key

\* C22: decoding the bytes of an aggregate A into a narrower aggregate B
\* succeeds, with the cursor at the end of the content and the fields of B
\* equal to those of A; the records of the other tags are skipped.
C22_AsymmetryTolerance ==
    Narrower =>
        /\ ret.tag = "Ok"
        /\ deserializer.position = Len(deserializer.input)
        /\ Len(ret.val) = Len(deserializer.target.fields)
        /\ \A i \in 1..Len(deserializer.target.fields) :
              /\ ret.val[i].tag = src.fields[SourceOf(i)].value.tag
              /\ ret.val[i].val = src.fields[SourceOf(i)].value.val

\* test_serialize_asymmetry: from_bytes::<TestShort> of a TestLarge panics
\* at the record of tag 31
C22_TestShortPanics ==
    /\ Narrower
    /\ FieldsAre(TestLargeFields)
    /\ Len(deserializer.target.fields) = 1
    /\ deserializer.target.fields[1].key = u8_to_string(30)
    /\ deserializer.target.fields = TestShortFields
    /\ pc = "panicked"
    /\ ret = Panic
    /\ deserializer.input[deserializer.position + 1] = 31

\* the record loop of visit_map exits: next_key_seed finds the cursor at or
\* past the content end
LoopExit == pc = "map" /\ WLe(deserializer.len, WOf(deserializer.position))

\* the cursor is at the content end: 16 + the octets of the length + the
\* content length declared
AtContentEnd == deserializer.len = WOf(deserializer.position)

\* the cursor is at the end of the input
AtInputEnd == deserializer.position = Len(deserializer.input)

\* a field of the target type that is not an Option was not seen
MissingField ==
    \E i \in 1..Len(deserializer.target.fields) :
        Len(deserializer.got[i]) = 0 /\ ~deserializer.target.fields[i].optional

Octets2(n) == <<n \div 256, n % 256>>

\* the big-endian payload stated for a value of each type, negative numbers
\* in two's complement
StatedPayload(x) ==
    CASE x.ty = "bool" -> <<IF x.v THEN 1 ELSE 0>>
      [] x.ty = "u8" -> <<x.v>>
      [] x.ty = "i8" -> <<IF x.v < 0 THEN x.v + 256 ELSE x.v>>
      [] x.ty = "u16" -> Octets2(x.v)
      [] x.ty = "i16" -> Octets2(IF x.v < 0 THEN x.v + 65536 ELSE x.v)
      [] x.ty \in {"u32", "f32"} -> Octets2(x.v[1]) \o Octets2(x.v[2])
      [] x.ty = "i32" ->
            IF x.v < 0
            THEN Octets2(65535 - ((-x.v - 1) \div 65536))
                    \o Octets2(65535 - ((-x.v - 1) % 65536))
            ELSE Octets2(x.v \div 65536) \o Octets2(x.v % 65536)
      [] x.ty \in {"u64", "f64"} ->
            Octets2(x.v[1]) \o Octets2(x.v[2]) \o Octets2(x.v[3]) \o Octets2(x.v[4])
      [] x.ty = "i64" ->
            Octets2(IF x.v[1] < 0 THEN x.v[1] + 65536 ELSE x.v[1])
               \o Octets2(x.v[2]) \o Octets2(x.v[3]) \o Octets2(x.v[4])
      [] x.ty = "char" -> Octets2(x.v \div 65536) \o Octets2(x.v % 65536)
      [] x.ty \in {"str", "bytes"} -> x.v
      [] x.ty = "unit" -> <<>>

\* the length stated for each type
StatedPayloadLen(x) ==
    CASE x.ty \in {"bool", "i8", "u8"} -> 1
      [] x.ty \in {"i16", "u16"} -> 2
      [] x.ty \in {"i32", "u32", "f32", "char"} -> 4
      [] x.ty \in {"i64", "u64", "f64"} -> 8
      [] x.ty \in {"str", "bytes"} -> Len(x.v)
      [] x.ty = "unit" -> 0

\* the record stated for a field: nothing when it is skipped, else its tag,
\* the BER length and the payload, a None being a unit
StatedRecord(f) ==
    LET x == IF f.value.tag = "None" THEN Typed("unit", <<>>) ELSE Typed(f.ty, f.value.val) IN
    IF Skipped(f) THEN <<>>
    ELSE <<TagOf(f.key)>> \o StatedOctets(WOf(StatedPayloadLen(x))) \o StatedPayload(x)

\* the records of the fields in declaration order
StatedBody(fields) ==
    LET B[i \in 0..Len(fields)] ==
            IF i = 0 THEN <<>> ELSE B[i - 1] \o StatedRecord(fields[i])
    IN  B[Len(fields)]

\* C24: the output of a successful to_bytes is the 16-byte name, the BER
\* length of the body and the body, the body being the records (tag, BER
\* length, big-endian payload) of the fields emitted, in declaration order;
\* its length is 16 + the octets of the length + the length of the body.
C24_WireLayout ==
    (src.kind = "aggregate" /\ Encoded) =>
        LET body == StatedBody(src.fields) IN
        /\ Len(src.name) = 16
        /\ gbuf.head = src.name \o StatedOctets(WOf(Len(body))) \o body
        /\ Len(gbuf.head) = 16 + StatedLengthOfLength(Len(body)) + Len(body)

C24_Witness ==
    /\ src.kind = "aggregate"
    /\ pc = "encoded"
    /\ Len(src.fields) = 2
    /\ src.fields[1].ty = "i32"
    /\ src.fields[2].ty = "str"
    /\ Len(serializer.output) > 127
    /\ gbuf.head[17] = 129

\* from_bytes::<T> has returned for the T of x and a proper prefix of the
\* output of to_bytes(&x)
Truncated ==
    /\ op = "from_bytes"
    /\ deserializer.target = [name |-> src.name, fields |-> src.fields]
    /\ Len(deserializer.input) < Len(gbuf.head)
    /\ deserializer.input = SubSeq(gbuf.head, 1, Len(deserializer.input))

\* C27: from_bytes of a proper prefix of an output of to_bytes (inputs
\* shorter than 17 bytes among them) returns an error and does not panic.
C27_TruncatedInputIsAnError ==
    Truncated => (pc = "decoded" /\ ret.tag = "Err")

\* from_bytes of the first 10 bytes of an output panics, and so does
\* from_bytes of an output without its last byte
C27_PrefixPanics ==
    /\ Truncated
    /\ Len(deserializer.input) \in {10, Len(gbuf.head) - 1}
    /\ Len(src.fields) = 1
    /\ pc = "panicked"
    /\ ret = Panic

(***************************************************************************)
(* Properties of SpecRecords: KLV::try_from_bytes and the ends of the      *)
(* iterators                                                               *)
(***************************************************************************)
\* buf holds one complete short-form record
CompleteRecord(b) == Len(b) >= 2 /\ Len(b) >= 2 + b[2]

\* C28: KLV::try_from_bytes(buf) accepts buf exactly when it holds one
\* complete short-form record (the two bytes of a zero-length record
\* included) and refuses any other with LessLength; on an accepted buf
\* key(), len(), content() and parse() index inside buf and do not panic.
C28_TryFromBytesAcceptsCompleteRecords ==
    reader = "KLV" =>
        /\ op = "try_from_bytes" =>
              /\ ret.tag = "Ok" <=> CompleteRecord(buf)
              /\ ret.tag # "Ok" => ret = Err("LessLength")
        /\ pc # "panicked"

\* a zero-length record of two bytes is refused
C28_ZeroLengthRefused ==
    /\ reader = "KLV"
    /\ op = "try_from_bytes"
    /\ Len(buf) = 2
    /\ buf[2] = 0
    /\ ret = Err("LessLength")

\* a buffer of three bytes stating a length of three is accepted, and
\* content() panics
C28_AcceptedViewPanics ==
    /\ reader = "KLV"
    /\ buf = <<1, 3, 0>>
    /\ yielded = <<buf>>
    /\ op = "content"
    /\ pc = "panicked"

\* the run is over an iterator
Iterating == reader \in {"KLVRawReader", "KLVReader"}

\* a call of next() that yields advances the cursor by 2 + the length byte
\* of the record it yields, the cursor never decreases, and after None
\* there is only None
CursorAdvances ==
    [][(Iterating /\ op' = "next") =>
          /\ ret'.tag = "Some" =>
                /\ current' = current + 2 + buf[current + 2]
                /\ current' >= current + 2
                /\ Len(ret'.val) = current' - current
          /\ current' >= current
          /\ pc = "done" => ret' = NoneV]_vars

\* at most ceil(buf.len() / 2) records are yielded
BoundedYields == Iterating => 2 * Len(yielded) <= Len(buf) + 1

\* C29: the iterators terminate on every finite buffer: a next() that yields
\* advances the cursor by exactly 2 + length, the cursor never decreases,
\* and after at most ceil(buf.len() / 2) yields next() returns None, and
\* None on every later call.
C29_IteratorsTerminate ==
    /\ CursorAdvances
    /\ []BoundedYields
    /\ Iterating => <>[](pc = "done" /\ ret.tag = "None")

\* next() on a buffer of one byte panics: None is never returned
C29_NextPanics ==
    /\ Iterating
    /\ Len(buf) = 1
    /\ op = "next"
    /\ pc = "panicked"
    /\ yielded = <<>>

(***************************************************************************)
(* SpecPes: mpegts_reader's PtsDumpElementaryStreamConsumer. The PES       *)
(* filter calls begin_packet with the first payload of a PES packet,       *)
(* continue_packet with each later piece and end_packet when the packet    *)
(* is over; a packet may be over before all of its frame has arrived.      *)
(***************************************************************************)
\* the KLV frames PES packets carry: an ST 0601 set with one record
\* (PlatformHeadingAngle), a frame of another key and an empty ST 0601 set
PesFrames ==
    <<LS_UNIVERSAL_KEY0601_8_10 \o <<4, 5, 2, 0, 1>>,
      DUMMY_DATASET_KEY \o <<2, 0, 0>>,
      LS_UNIVERSAL_KEY0601_8_10 \o <<0>>>>

\* where the transport packets cut a frame
PesCuts == {10, 17}

\* header.contents(): the payload comes after a parsed header, the header
\* has no parsed part, or the packet is payload only
PesContents == {"Parsed(Some)", "Parsed(None)", "Payload"}

\* the packet being delivered: the frame it carries and what has arrived
PesSrc(frame, contents, packet) ==
    [kind |-> "pes", frame |-> frame, contents |-> contents, packet |-> packet]

\* the piece of the frame from what has arrived up to the next cut
NextPiece(frame, arrived) ==
    LET ends == {c \in PesCuts \cup {Len(frame)} : c > arrived /\ c <= Len(frame)} IN
    IF ends = {} THEN <<>>
    ELSE SubSeq(frame, arrived + 1, CHOOSE c \in ends : \A d \in ends : c <= d)

\* begin_packet(header) on the consumer c
PtsDump_begin_packet(c, contents, payload) ==
    IF contents = "Parsed(Some)"
        THEN [len |-> SomeV(Len(payload)), buf |-> c.buf \o payload]
    ELSE IF contents = "Parsed(None)" THEN c
    ELSE [c EXCEPT !.len = SomeV(Len(payload))]

\* continue_packet(data)
PtsDump_continue_packet(c, data) ==
    [len |-> IF c.len.tag = "Some" THEN SomeV(c.len.val + Len(data)) ELSE c.len,
     buf |-> c.buf \o data]

\* for x in r { info!(x.key(), x.parse()) }: the views logged, or the panic
\* of next() or of parse()
RECURSIVE DumpRecords(_, _, _)
DumpRecords(b, cur, logged) ==
    IF KLVReader_next(b, cur).ret.tag = "None" THEN Ok(logged)
    ELSE IF KLVReader_next(b, cur).ret.tag = "Panic" THEN Panic
    ELSE IF KLV_key(KLVReader_next(b, cur).ret.val).tag = "Panic" THEN Panic
    ELSE IF KLV_parse(KLVReader_next(b, cur).ret.val).tag = "Panic" THEN Panic
    ELSE DumpRecords(b, KLVReader_next(b, cur).current,
                     Append(logged, KLVReader_next(b, cur).ret.val))

\* end_packet(): the consumer after it and the views it logged; buf.clear()
\* and len = None are inside the if let Ok
PtsDump_end_packet(c) ==
    IF KLVGlobal_try_from_bytes(Bytes(c.buf)).tag # "Ok" THEN [c |-> c, ret |-> Ok(<<>>)]
    ELSE IF KLVGlobal_key_is(Bytes(c.buf), LS_UNIVERSAL_KEY0601_8_10).tag = "Panic"
        THEN [c |-> c, ret |-> Panic]
    ELSE IF ~KLVGlobal_key_is(Bytes(c.buf), LS_UNIVERSAL_KEY0601_8_10).val
        THEN [c |-> PtsDumpElementaryStreamConsumer_construct, ret |-> Ok(<<>>)]
    ELSE IF KLVGlobal_content(Bytes(c.buf)).tag = "Panic" THEN [c |-> c, ret |-> Panic]
    ELSE LET d == DumpRecords(Flat(KLVGlobal_content(Bytes(c.buf)).val), 0, <<>>) IN
         IF d.tag = "Panic" THEN [c |-> c, ret |-> Panic]
         ELSE [c |-> PtsDumpElementaryStreamConsumer_construct, ret |-> d]

pesVars == <<gbuf, buf, origin, reader, current, yielded, serializer, deserializer>>

InitPes ==
    /\ gbuf = EmptyBuf
    /\ buf = <<>>
    /\ origin = <<>>
    /\ reader = "none"
    /\ current = 0
    /\ yielded = <<>>
    /\ serializer = Serializer_default
    /\ deserializer = Deserializer_from_bytes(<<>>)
    /\ consumer = PtsDumpElementaryStreamConsumer_construct
    /\ src = PesSrc(<<>>, "none", <<>>)
    /\ pc = "constructed"
    /\ op = "none"
    /\ ret = NoRet

\* a PES packet starts: its first piece is the frame up to a cut, or all of
\* it
Call_begin_packet ==
    /\ pc \in {"constructed", "ended"}
    /\ \E f \in 1..Len(PesFrames), contents \in PesContents :
          \E k \in {c \in PesCuts \cup {Len(PesFrames[f])} : c <= Len(PesFrames[f])} :
             LET payload == SubSeq(PesFrames[f], 1, k) IN
             /\ consumer' = PtsDump_begin_packet(consumer, contents, payload)
             /\ src' = PesSrc(PesFrames[f], contents, payload)
    /\ op' = "begin_packet"
    /\ ret' = Ok(<<>>)
    /\ pc' = "started"
    /\ UNCHANGED pesVars

\* the next piece of the packet arrives
Call_continue_packet ==
    /\ pc = "started"
    /\ Len(src.packet) < Len(src.frame)
    /\ LET data == NextPiece(src.frame, Len(src.packet)) IN
          /\ consumer' = PtsDump_continue_packet(consumer, data)
          /\ src' = [src EXCEPT !.packet = @ \o data]
    /\ op' = "continue_packet"
    /\ ret' = Ok(<<>>)
    /\ pc' = "started"
    /\ UNCHANGED pesVars

\* the packet is over, whether or not all of its frame has arrived
Call_end_packet ==
    /\ pc = "started"
    /\ consumer' = PtsDump_end_packet(consumer).c
    /\ op' = "end_packet"
    /\ ret' = PtsDump_end_packet(consumer).ret
    /\ pc' = IF ret'.tag = "Panic" THEN "panicked" ELSE "ended"
    /\ UNCHANGED <<src, pesVars>>

NextPes ==
    \/ Call_begin_packet
    \/ Call_continue_packet
    \/ Call_end_packet

SpecPes == InitPes /\ [][NextPes]_vars

(***************************************************************************)
(* Properties of SpecPes                                                   *)
(***************************************************************************)
\* no packet is being delivered
BetweenPackets == pc \in {"constructed", "ended"}

\* C30: every PES packet is parsed on its own bytes: whenever begin_packet
\* can be called the accumulation buffer is empty and len is None; that is,
\* end_packet always leaves buf empty and len = None, also when the bytes
\* were fewer than 18 or did not carry the ST 0601 key.
C30_EndPacketClears ==
    BetweenPackets => consumer.buf = <<>> /\ consumer.len.tag = "None"

\* end_packet returned on fewer than 18 bytes and has kept them, with len
C30_StaleBytesKept ==
    /\ op = "end_packet"
    /\ pc = "ended"
    /\ consumer.buf # <<>>
    /\ Len(consumer.buf) < MINIMUM_LENGHT
    /\ consumer.buf = src.packet
    /\ consumer.len.tag = "Some"

====
